---- MODULE Spec2Model ----
(***************************************************************************)
(* A model of the IB_MCP gateway routers (src/mcp_server/routers/*.py):    *)
(* every route handler validates its declared inputs, opens one httpx      *)
(* client, issues its upstream call(s), and returns the upstream JSON or   *)
(* one of two error envelopes.                                             *)
(*                                                                         *)
(* Python values are records tagged with their Python type, so that str(), *)
(* truthiness, model_dump() and json() are computed as Python computes     *)
(* them and values of different types can be told apart.                   *)
(***************************************************************************)
EXTENDS Integers, Sequences, FiniteSets, TLC

(* ------------------------------------------------------------------ *)
(* Python values                                                        *)
(* ------------------------------------------------------------------ *)
VStr(x) == [ty |-> "str", s |-> x]
VInt(k) == [ty |-> "int", n |-> k]
VFloat(k) == [ty |-> "float", n |-> k]
VBool(v) == [ty |-> "bool", b |-> v]
None == [ty |-> "none"]
VList(q) == [ty |-> "list", items |-> q]
VDict(f) == [ty |-> "dict", kv |-> f]

\* What a failed conversion yields (FastAPI / pydantic then reject the request).
Invalid == [ty |-> "invalid"]
\* A request without a body, a call without params / json.
Absent == [ty |-> "absent"]

EmptyKV == [k \in {} |-> None]

\* params["k"] = v, d["k"] = v
Put(kv, k, v) == (k :> v) @@ kv

\* Python truthiness, as used by `if bar:` in the handlers.
Truthy(v) ==
    CASE v.ty = "none" -> FALSE
      [] v.ty = "str" -> v.s # ""
      [] v.ty = "bool" -> v.b
      [] v.ty = "int" -> v.n # 0
      [] v.ty = "float" -> v.n # 0
      [] v.ty = "list" -> v.items # <<>>
      [] v.ty = "dict" -> DOMAIN v.kv # {}
      [] OTHER -> FALSE

\* str(v)
PyStr(v) ==
    CASE v.ty = "str" -> v.s
      [] v.ty = "bool" -> (IF v.b THEN "True" ELSE "False")
      [] v.ty = "none" -> "None"
      [] v.ty = "int" -> ToString(v.n)
      [] v.ty = "float" -> ToString(v.n) \o ".0"
      [] OTHER -> "?"

\* s.lower() left out: the text of str(v) as it is.
Lower_Omitted(s) == s

\* s.lower(), on the strings the model handles
Lower(s) ==
    CASE s = "True" -> "true"
      [] s = "False" -> "false"
      [] s = "None" -> "none"
      [] OTHER -> s

(* ------------------------------------------------------------------ *)
(* Declared inputs and their validation (FastAPI / pydantic)            *)
(* ------------------------------------------------------------------ *)
\* name: type = Path(...)
PathP(name, type) ==
    [name |-> name, in |-> "path", type |-> type, required |-> TRUE, default |-> None]
\* name: type = Query(...)
Req(name, type) ==
    [name |-> name, in |-> "query", type |-> type, required |-> TRUE, default |-> None]
\* name: Optional[type] = Query(default)
Opt(name, type, default) ==
    [name |-> name, in |-> "query", type |-> type, required |-> FALSE, default |-> default]

\* The integers the model's callers write.
IntText == ("0" :> 0) @@ ("7" :> 7) @@ ("10" :> 10)

\* One raw path / query string converted to the declared type.
Convert(type, raw) ==
    CASE type = "str" -> VStr(raw)
      [] type = "int" -> (IF raw \in DOMAIN IntText THEN VInt(IntText[raw]) ELSE Invalid)
      [] type = "float" -> (IF raw \in DOMAIN IntText THEN VFloat(IntText[raw]) ELSE Invalid)
      [] type = "bool" ->
            (CASE raw = "true" -> VBool(TRUE)
               [] raw = "false" -> VBool(FALSE)
               [] OTHER -> Invalid)
      [] OTHER -> Invalid

\* BindParam with a required parameter treated like an optional one: left out, it
\* is bound to its default instead of refusing the request.
BindParam_RequiredDefaulted(d, given) ==
    IF d.name \in DOMAIN given
    THEN Convert(d.type, given[d.name])
    ELSE d.default

\* The value a handler parameter is bound to; Invalid when the request has to be
\* refused (a required parameter missing, or a value that does not convert).
BindParam(d, given) ==
    IF d.name \in DOMAIN given
    THEN Convert(d.type, given[d.name])
    ELSE IF d.required THEN Invalid ELSE d.default

ParamNames(sig, where) == {sig[i].name : i \in {j \in DOMAIN sig : sig[j].in = where}}
DeclOf(sig, name) == sig[CHOOSE i \in DOMAIN sig : sig[i].name = name]

\* The handler's keyword arguments for the path and query of `inb`.
BindParams(sig, inb) ==
    [name \in {sig[i].name : i \in DOMAIN sig} |->
        LET d == DeclOf(sig, name)
        IN BindParam(d, IF d.in = "path" THEN inb.path ELSE inb.query)]

(* ------------------------------------------------------------------ *)
(* Request body models (pydantic BaseModel subclasses)                  *)
(* ------------------------------------------------------------------ *)
\* name: type = Field(...)
Field(name, type) ==
    [name |-> name, type |-> type, required |-> TRUE, nullable |-> FALSE, default |-> None]
\* name: Optional[type] = Field(default)
OptField(name, type, default) ==
    [name |-> name, type |-> type, required |-> FALSE, nullable |-> TRUE, default |-> default]

ContractRulesRequest == <<Field("conid", "int"), Field("isBuy", "bool")>>

AccountAllocation == <<Field("id", "str"), Field("amount", "float")>>

FAGroup ==
    <<Field("name", "str"), Field("method", "str"),
      Field("accounts", "list[AccountAllocation]")>>

DeliveryOptionsRequest == <<Field("enabled", "bool")>>

DeviceDeliveryOptionsRequest ==
    <<Field("deviceId", "str"), Field("uiName", "str"), Field("enabled", "bool")>>

FYISettingsGetRequest == <<Field("typeCodes", "list[str]")>>

FYISettingsRequest == <<Field("enabled", "bool")>>

MarkReadRequest == <<Field("notificationIds", "list[str]")>>

UnsubscribeRequest == <<Field("conid", "str")>>

OrderModel ==
    <<OptField("acctId", "str", None),
      OptField("conid", "int", None),
      OptField("conidex", "str", None),
      OptField("secType", "str", None),
      OptField("cOID", "str", None),
      OptField("parentId", "str", None),
      Field("orderType", "str"),
      OptField("listingExchange", "str", None),
      OptField("outsideRTH", "bool", VBool(FALSE)),
      OptField("price", "float", None),
      OptField("auxPrice", "float", None),
      Field("side", "str"),
      OptField("ticker", "str", None),
      Field("tif", "str"),
      Field("quantity", "float"),
      OptField("useAdaptive", "bool", VBool(FALSE)),
      OptField("strategy", "str", None),
      OptField("strategyParameters", "dict", None)>>

OrdersRequest == <<Field("orders", "list[OrderModel]")>>

ReplyRequest == <<Field("confirmed", "bool")>>

AccountAllocationRequest == <<Field("acctIds", "list[str]")>>

WatchlistCreateRequest == <<Field("name", "str"), OptField("conids", "list[str]", None)>>

WatchlistContractsRequest == <<Field("conids", "list[str]")>>

ModelNames ==
    {"ContractRulesRequest", "AccountAllocation", "FAGroup", "DeliveryOptionsRequest",
     "DeviceDeliveryOptionsRequest", "FYISettingsGetRequest", "FYISettingsRequest",
     "MarkReadRequest", "UnsubscribeRequest", "OrderModel", "OrdersRequest",
     "ReplyRequest", "AccountAllocationRequest", "WatchlistCreateRequest",
     "WatchlistContractsRequest"}

ModelFields(m) ==
    CASE m = "ContractRulesRequest" -> ContractRulesRequest
      [] m = "AccountAllocation" -> AccountAllocation
      [] m = "FAGroup" -> FAGroup
      [] m = "DeliveryOptionsRequest" -> DeliveryOptionsRequest
      [] m = "DeviceDeliveryOptionsRequest" -> DeviceDeliveryOptionsRequest
      [] m = "FYISettingsGetRequest" -> FYISettingsGetRequest
      [] m = "FYISettingsRequest" -> FYISettingsRequest
      [] m = "MarkReadRequest" -> MarkReadRequest
      [] m = "UnsubscribeRequest" -> UnsubscribeRequest
      [] m = "OrderModel" -> OrderModel
      [] m = "OrdersRequest" -> OrdersRequest
      [] m = "ReplyRequest" -> ReplyRequest
      [] m = "AccountAllocationRequest" -> AccountAllocationRequest
      [] m = "WatchlistCreateRequest" -> WatchlistCreateRequest
      [] m = "WatchlistContractsRequest" -> WatchlistContractsRequest

\* List[T]: the element type
ElemType(type) ==
    CASE type = "list[str]" -> "str"
      [] type = "list[OrderModel]" -> "OrderModel"
      [] type = "list[AccountAllocation]" -> "AccountAllocation"
      [] OTHER -> "none"

FieldNames(fields) == {fields[i].name : i \in DOMAIN fields}
FieldOf(fields, name) == fields[CHOOSE i \in DOMAIN fields : fields[i].name = name]

\* A validated model instance: every declared field, and nothing else
\* (pydantic's default extra="ignore" drops undeclared keys).
Model(m, kv) == [ty |-> "model", model |-> m, kv |-> kv]

\* pydantic validation of the JSON value v against a declared type (lax mode: an
\* integer is accepted where a float is declared).  Invalid when v is refused.
RECURSIVE Validate(_, _)
Validate(type, v) ==
    CASE type = "str" -> (IF v.ty = "str" THEN v ELSE Invalid)
      [] type = "int" -> (IF v.ty = "int" THEN v ELSE Invalid)
      [] type = "float" ->
            (CASE v.ty = "float" -> v
               [] v.ty = "int" -> VFloat(v.n)
               [] OTHER -> Invalid)
      [] type = "bool" -> (IF v.ty = "bool" THEN v ELSE Invalid)
      [] type = "dict" -> (IF v.ty = "dict" THEN v ELSE Invalid)
      [] ElemType(type) # "none" ->
            (IF v.ty # "list" THEN Invalid
             ELSE LET items == [i \in DOMAIN v.items |-> Validate(ElemType(type), v.items[i])]
                  IN IF \E i \in DOMAIN items : items[i] = Invalid
                     THEN Invalid ELSE VList(items))
      [] type \in ModelNames ->
            (IF v.ty # "dict" THEN Invalid
             ELSE LET fields == ModelFields(type)
                      kv == [name \in FieldNames(fields) |->
                                LET f == FieldOf(fields, name)
                                IN IF name \in DOMAIN v.kv
                                   THEN IF v.kv[name] = None
                                        THEN (IF f.nullable THEN None ELSE Invalid)
                                        ELSE Validate(f.type, v.kv[name])
                                   ELSE IF f.required THEN Invalid ELSE f.default]
                  IN IF \E name \in DOMAIN kv : kv[name] = Invalid
                     THEN Invalid ELSE Model(type, kv))
      [] OTHER -> Invalid

\* BaseModel.model_dump(exclude_none=...)
RECURSIVE model_dump(_, _)
model_dump(v, exclude_none) ==
    CASE v.ty = "model" ->
            VDict([name \in {k \in DOMAIN v.kv : ~(exclude_none /\ v.kv[k] = None)} |->
                      model_dump(v.kv[name], exclude_none)])
      [] v.ty = "list" ->
            VList([i \in DOMAIN v.items |-> model_dump(v.items[i], exclude_none)])
      [] OTHER -> v

(* ------------------------------------------------------------------ *)
(* Outbound calls                                                       *)
(* ------------------------------------------------------------------ *)
\* mcp_server.config.BASE_URL: one fixed address, read at import.
BASE_URL == "{BASE_URL}"

Call(method, url, params, json, timeout) ==
    [method |-> method, url |-> url, params |-> params, json |-> json, timeout |-> timeout]

\* await client.get(url, ...): the response is dropped
Discard(c) == [call |-> c, use |-> FALSE]
\* response = await client.get(url, ...); response.raise_for_status(); return response.json()
Return(c) == [call |-> c, use |-> TRUE]

(* ------------------------------------------------------------------ *)
(* contract.py                                                          *)
(* ------------------------------------------------------------------ *)
get_contract_algos_sig ==
    <<PathP("conid", "int"), Opt("algos", "str", None),
      Opt("addDescription", "str", None), Opt("addParams", "str", None)>>

get_contract_algos(a, body) ==
    LET p0 == EmptyKV
        p1 == IF Truthy(a.algos) THEN Put(p0, "algos", a.algos) ELSE p0
        p2 == IF Truthy(a.addDescription) THEN Put(p1, "addDescription", a.addDescription) ELSE p1
        params == IF Truthy(a.addParams) THEN Put(p2, "addParams", a.addParams) ELSE p2
    IN <<Return(Call("GET", BASE_URL \o "/iserver/contract/" \o PyStr(a.conid) \o "/algos",
                     VDict(params), Absent, 10))>>

get_contract_info_and_rules_sig == <<PathP("conid", "int"), Req("isBuy", "bool")>>

get_contract_info_and_rules(a, body) ==
    LET params == Put(EmptyKV, "isBuy", a.isBuy)
    IN <<Return(Call("GET", BASE_URL \o "/iserver/contract/" \o PyStr(a.conid) \o "/info-and-rules",
                     VDict(params), Absent, 10))>>

get_contract_info_sig == <<PathP("conid", "int")>>

get_contract_info(a, body) ==
    <<Return(Call("GET", BASE_URL \o "/iserver/contract/" \o PyStr(a.conid) \o "/info",
                  Absent, Absent, 10))>>

get_bond_filters_sig == <<Req("issuerId", "str")>>

\* get_bond_filters sending issuerId alone.
get_bond_filters_no_symbol(a, body) ==
    LET params == Put(EmptyKV, "issuerId", a.issuerId)
    IN <<Return(Call("GET", BASE_URL \o "/iserver/secdef/bond-filters", VDict(params), Absent, 10))>>

get_bond_filters(a, body) ==
    LET params == Put(Put(EmptyKV, "symbol", VStr("BOND")), "issuerId", a.issuerId)
    IN <<Return(Call("GET", BASE_URL \o "/iserver/secdef/bond-filters", VDict(params), Absent, 10))>>

search_currency_pairs_sig == <<Req("symbol", "str")>>

search_currency_pairs(a, body) ==
    LET params == Put(EmptyKV, "symbol", a.symbol)
    IN <<Return(Call("GET", BASE_URL \o "/iserver/secdef/currency", VDict(params), Absent, 10))>>

get_secdef_info_sig ==
    <<Req("conid", "str"), Req("secType", "str"), Opt("month", "str", None),
      Opt("exchange", "str", None), Opt("strike", "float", None), Opt("right", "str", None)>>

\* get_secdef_info testing strike with `is not None` instead of truthiness.
get_secdef_info_strike_not_none(a, body) ==
    LET p0 == Put(Put(EmptyKV, "conid", a.conid), "secType", a.secType)
        p1 == IF Truthy(a.month) THEN Put(p0, "month", a.month) ELSE p0
        p2 == IF Truthy(a.exchange) THEN Put(p1, "exchange", a.exchange) ELSE p1
        p3 == IF a.strike # None THEN Put(p2, "strike", a.strike) ELSE p2
        params == IF Truthy(a.right) THEN Put(p3, "right", a.right) ELSE p3
    IN <<Return(Call("GET", BASE_URL \o "/iserver/secdef/info", VDict(params), Absent, 10))>>

get_secdef_info(a, body) ==
    LET p0 == Put(Put(EmptyKV, "conid", a.conid), "secType", a.secType)
        p1 == IF Truthy(a.month) THEN Put(p0, "month", a.month) ELSE p0
        p2 == IF Truthy(a.exchange) THEN Put(p1, "exchange", a.exchange) ELSE p1
        p3 == IF Truthy(a.strike) THEN Put(p2, "strike", a.strike) ELSE p2
        params == IF Truthy(a.right) THEN Put(p3, "right", a.right) ELSE p3
    IN <<Return(Call("GET", BASE_URL \o "/iserver/secdef/info", VDict(params), Absent, 10))>>

search_contract_by_symbol_or_name_sig ==
    <<Req("symbol", "str"), Opt("name", "bool", VBool(FALSE)), Opt("secType", "str", None)>>

search_contract_by_symbol_or_name(a, body) ==
    LET p0 == Put(EmptyKV, "symbol", a.symbol)
        p1 == IF a.name # None THEN Put(p0, "name", VStr(Lower(PyStr(a.name)))) ELSE p0
        params == IF Truthy(a.secType) THEN Put(p1, "secType", a.secType) ELSE p1
    IN <<Return(Call("GET", BASE_URL \o "/iserver/secdef/search", VDict(params), Absent, 10))>>

get_contract_rules(a, body) ==
    <<Return(Call("POST", BASE_URL \o "/iserver/contract/rules",
                  Absent, model_dump(body, FALSE), 10))>>

get_strikes_sig ==
    <<Req("conid", "int"), Req("secType", "str"), Req("month", "str"),
      Opt("exchange", "str", None)>>

get_strikes(a, body) ==
    LET p0 == Put(Put(Put(EmptyKV, "conid", a.conid), "secType", a.secType), "month", a.month)
        params == IF Truthy(a.exchange) THEN Put(p0, "exchange", a.exchange) ELSE p0
    IN <<Return(Call("GET", BASE_URL \o "/iserver/secdef/strikes", VDict(params), Absent, 10))>>

get_trsrv_futures_by_symbol_sig == <<Req("symbols", "str")>>

get_trsrv_futures_by_symbol(a, body) ==
    LET params == Put(EmptyKV, "symbols", a.symbols)
    IN <<Return(Call("GET", BASE_URL \o "/trsrv/futures", VDict(params), Absent, 10))>>

get_secdef_by_conids_sig == <<Req("conids", "str")>>

get_secdef_by_conids(a, body) ==
    LET params == Put(EmptyKV, "conids", a.conids)
    IN <<Return(Call("GET", BASE_URL \o "/trsrv/secdef", VDict(params), Absent, 10))>>

get_stocks_by_symbol_sig == <<Req("symbols", "str")>>

get_stocks_by_symbol(a, body) ==
    LET params == Put(EmptyKV, "symbols", a.symbols)
    IN <<Return(Call("GET", BASE_URL \o "/trsrv/stocks", VDict(params), Absent, 10))>>

get_trading_schedule_sig ==
    <<Req("assetClass", "str"), Req("symbol", "str"), Opt("exchange", "str", None),
      Opt("exchangeFilter", "str", None)>>

get_trading_schedule(a, body) ==
    LET p0 == Put(Put(EmptyKV, "assetClass", a.assetClass), "symbol", a.symbol)
        p1 == IF Truthy(a.exchange) THEN Put(p0, "exchange", a.exchange) ELSE p0
        params == IF Truthy(a.exchangeFilter) THEN Put(p1, "exchangeFilter", a.exchangeFilter) ELSE p1
    IN <<Return(Call("GET", BASE_URL \o "/trsrv/secdef/schedule", VDict(params), Absent, 10))>>

(* ------------------------------------------------------------------ *)
(* fa_allocation_management.py                                          *)
(* ------------------------------------------------------------------ *)
get_fa_groups(a, body) ==
    <<Return(Call("GET", BASE_URL \o "/fa/groups", Absent, Absent, 10))>>

\* create_fa_group sending the bare group object.
create_fa_group_bare(a, body) ==
    <<Return(Call("POST", BASE_URL \o "/fa/groups", Absent, model_dump(body, FALSE), 10))>>

create_fa_group(a, body) ==
    <<Return(Call("POST", BASE_URL \o "/fa/groups",
                  Absent, VList(<<model_dump(body, FALSE)>>), 10))>>

(* ------------------------------------------------------------------ *)
(* fyis_and_notifications.py                                            *)
(* ------------------------------------------------------------------ *)
get_fyi_unread_number(a, body) ==
    <<Return(Call("GET", BASE_URL \o "/fyi/unreadnumber", Absent, Absent, 10))>>

get_fyi_delivery_options(a, body) ==
    <<Return(Call("GET", BASE_URL \o "/fyi/deliveryoptions", Absent, Absent, 10))>>

configure_fyi_delivery_options(a, body) ==
    <<Return(Call("POST", BASE_URL \o "/fyi/deliveryoptions",
                  Absent, model_dump(body, FALSE), 10))>>

configure_device_delivery_options(a, body) ==
    <<Return(Call("PUT", BASE_URL \o "/fyi/deliveryoptions/device",
                  Absent, model_dump(body, FALSE), 10))>>

get_fyi_settings(a, body) ==
    <<Return(Call("POST", BASE_URL \o "/fyi/settings", Absent, model_dump(body, FALSE), 10))>>

configure_fyi_setting_sig == <<PathP("typecode", "str")>>

configure_fyi_setting(a, body) ==
    <<Return(Call("PUT", BASE_URL \o "/fyi/settings/" \o PyStr(a.typecode),
                  Absent, model_dump(body, FALSE), 10))>>

\* mark_notifications_as_read going through client.delete(url), which takes no body.
mark_notifications_as_read_no_body(a, body) ==
    <<Return(Call("DELETE", BASE_URL \o "/fyi/notifications", Absent, Absent, 10))>>

\* client.build_request("DELETE", url, json=...) then client.send(request, timeout=10)
mark_notifications_as_read(a, body) ==
    <<Return(Call("DELETE", BASE_URL \o "/fyi/notifications",
                  Absent, model_dump(body, FALSE), 10))>>

get_notifications_sig ==
    <<Opt("exclude", "str", None), Opt("include", "str", None), Opt("max", "int", VInt(10))>>

get_notifications(a, body) ==
    LET p0 == Put(EmptyKV, "max", a.max)
        p1 == IF Truthy(a.exclude) THEN Put(p0, "exclude", a.exclude) ELSE p0
        params == IF Truthy(a.include) THEN Put(p1, "include", a.include) ELSE p1
    IN <<Return(Call("GET", BASE_URL \o "/fyi/notifications", VDict(params), Absent, 10))>>

(* ------------------------------------------------------------------ *)
(* market_data.py                                                       *)
(* ------------------------------------------------------------------ *)
MARKET_DATA_FIELDS ==
    VList(<<VDict([field_code |-> VStr("31"), type |-> VStr("String"), name |-> VStr("Last Price")]),
            VDict([field_code |-> VStr("7633"), type |-> VStr("String"), name |-> VStr("VWAP")])>>)

MARKET_DATA_AVAILABILITY ==
    VDict([L |-> VDict([name |-> VStr("Live")]), d |-> VDict([name |-> VStr("Delayed Snapshot")])])

HMDS_HISTORY_RULES ==
    VDict([period_units |-> VDict([S |-> VStr("Seconds"), d |-> VStr("Day")]),
           bar_units_by_period |-> VDict([1d |-> VStr("mins, hrs, d (1 min -> 1 day)")])])

ISERVER_HISTORY_RULES ==
    VDict([period_format |-> VStr("{1-30}min, {1-8}h, {1-1000}d, {1-792}w, {1-182}m, {1-15}y"),
           bar_values |-> VStr("1min, 2min, 3min, 5min, 10min, 15min, 30min, 1h, 2h, 3h, 4h, 8h, 1d, 1w, 1m")])

get_available_fields == MARKET_DATA_FIELDS

get_availability_codes == MARKET_DATA_AVAILABILITY

get_hmds_history_rules == HMDS_HISTORY_RULES

get_iserver_history_rules == ISERVER_HISTORY_RULES

get_marketdata_snapshot_sig == <<Req("conids", "str"), Req("fields", "str")>>

\* get_marketdata_snapshot returning the response of its first call.
get_marketdata_snapshot_once(a, body) ==
    LET params == Put(Put(EmptyKV, "conids", a.conids), "fields", a.fields)
    IN <<Return(Call("GET", BASE_URL \o "/iserver/marketdata/snapshot", VDict(params), Absent, 10))>>

get_marketdata_snapshot(a, body) ==
    LET params == Put(Put(EmptyKV, "conids", a.conids), "fields", a.fields)
    IN <<Discard(Call("GET", BASE_URL \o "/iserver/marketdata/snapshot", VDict(params), Absent, 10)),
         Return(Call("GET", BASE_URL \o "/iserver/marketdata/snapshot", VDict(params), Absent, 10))>>

get_md_snapshot_sig == <<Req("conids", "str"), Opt("fields", "str", None)>>

get_md_snapshot(a, body) ==
    LET p0 == Put(EmptyKV, "conids", a.conids)
        params == IF Truthy(a.fields) THEN Put(p0, "fields", a.fields) ELSE p0
    IN <<Return(Call("GET", BASE_URL \o "/md/snapshot", VDict(params), Absent, 10))>>

get_marketdata_history_sig ==
    <<Req("conid", "str"), Req("period", "str"), Opt("bar", "str", None),
      Opt("exchange", "str", None), Opt("outsideRth", "bool", VBool(FALSE)),
      Opt("barType", "str", VStr("trades"))>>

\* get_marketdata_history setting params["bar"] without the `if bar:` guard.
get_marketdata_history_unguarded(a, body) ==
    LET p0 == Put(Put(Put(EmptyKV, "conid", a.conid), "period", a.period),
                  "outsideRth", VStr(Lower(PyStr(a.outsideRth))))
        p1 == Put(p0, "bar", a.bar)
        p2 == IF Truthy(a.exchange) THEN Put(p1, "exchange", a.exchange) ELSE p1
        params == IF Truthy(a.barType) THEN Put(p2, "barType", a.barType) ELSE p2
    IN <<Return(Call("GET", BASE_URL \o "/iserver/marketdata/history", VDict(params), Absent, 20))>>

get_marketdata_history(a, body) ==
    LET p0 == Put(Put(Put(EmptyKV, "conid", a.conid), "period", a.period),
                  "outsideRth", VStr(Lower(PyStr(a.outsideRth))))
        p1 == IF Truthy(a.bar) THEN Put(p0, "bar", a.bar) ELSE p0
        p2 == IF Truthy(a.exchange) THEN Put(p1, "exchange", a.exchange) ELSE p1
        params == IF Truthy(a.barType) THEN Put(p2, "barType", a.barType) ELSE p2
    IN <<Return(Call("GET", BASE_URL \o "/iserver/marketdata/history", VDict(params), Absent, 20))>>

get_hmds_history_sig ==
    <<Req("conid", "str"), Req("period", "str"), Opt("bar", "str", None),
      Opt("outsideRth", "bool", VBool(FALSE)), Opt("barType", "str", VStr("trades")),
      Opt("startTime", "str", None)>>

get_hmds_history(a, body) ==
    LET p0 == Put(Put(Put(EmptyKV, "conid", a.conid), "period", a.period),
                  "outsideRth", VStr(Lower(PyStr(a.outsideRth))))
        p1 == IF Truthy(a.bar) THEN Put(p0, "bar", a.bar) ELSE p0
        p2 == IF Truthy(a.barType) THEN Put(p1, "barType", a.barType) ELSE p1
        params == IF Truthy(a.startTime) THEN Put(p2, "startTime", a.startTime) ELSE p2
    IN <<Discard(Call("GET", BASE_URL \o "/hmds/auth/init", Absent, Absent, 10)),
         Return(Call("GET", BASE_URL \o "/hmds/history", VDict(params), Absent, 30))>>

unsubscribe_market_data(a, body) ==
    <<Return(Call("POST", BASE_URL \o "/iserver/marketdata/unsubscribe",
                  Absent, model_dump(body, FALSE), 10))>>

unsubscribe_all_market_data(a, body) ==
    <<Return(Call("POST", BASE_URL \o "/iserver/marketdata/unsubscribeall", Absent, Absent, 10))>>

(* ------------------------------------------------------------------ *)
(* orders.py                                                            *)
(* ------------------------------------------------------------------ *)
place_order_sig == <<PathP("accountId", "str")>>

\* place_order dumping its body without exclude_none=True.
place_order_keep_none(a, body) ==
    <<Return(Call("POST", BASE_URL \o "/iserver/account/" \o PyStr(a.accountId) \o "/orders",
                  Absent, model_dump(body, FALSE), 10))>>

place_order(a, body) ==
    <<Return(Call("POST", BASE_URL \o "/iserver/account/" \o PyStr(a.accountId) \o "/orders",
                  Absent, model_dump(body, TRUE), 10))>>

preview_order_sig == <<PathP("accountId", "str")>>

\* preview_order dumping its body without exclude_none=True.
preview_order_keep_none(a, body) ==
    <<Return(Call("POST", BASE_URL \o "/iserver/account/" \o PyStr(a.accountId) \o "/orders/whatif",
                  Absent, model_dump(body, FALSE), 10))>>

preview_order(a, body) ==
    <<Return(Call("POST", BASE_URL \o "/iserver/account/" \o PyStr(a.accountId) \o "/orders/whatif",
                  Absent, model_dump(body, TRUE), 10))>>

modify_order_sig == <<PathP("accountId", "str"), PathP("orderId", "str")>>

\* modify_order with the two path values in each other's place.
modify_order_swapped(a, body) ==
    <<Return(Call("POST", BASE_URL \o "/iserver/account/" \o PyStr(a.orderId) \o "/order/"
                          \o PyStr(a.accountId),
                  Absent, model_dump(body, TRUE), 10))>>

modify_order(a, body) ==
    <<Return(Call("POST", BASE_URL \o "/iserver/account/" \o PyStr(a.accountId) \o "/order/"
                          \o PyStr(a.orderId),
                  Absent, model_dump(body, TRUE), 10))>>

cancel_order_sig == <<PathP("accountId", "str"), PathP("orderId", "str")>>

cancel_order(a, body) ==
    <<Return(Call("DELETE", BASE_URL \o "/iserver/account/" \o PyStr(a.accountId) \o "/order/"
                            \o PyStr(a.orderId),
                  Absent, Absent, 10))>>

place_order_reply_sig == <<PathP("replyId", "str")>>

place_order_reply(a, body) ==
    <<Return(Call("POST", BASE_URL \o "/iserver/reply/" \o PyStr(a.replyId),
                  Absent, model_dump(body, FALSE), 10))>>

(* ------------------------------------------------------------------ *)
(* portfolio.py                                                         *)
(* ------------------------------------------------------------------ *)
get_portfolio_accounts(a, body) ==
    <<Return(Call("GET", BASE_URL \o "/portfolio/accounts", Absent, Absent, 10))>>

get_portfolio_subaccounts(a, body) ==
    <<Return(Call("GET", BASE_URL \o "/portfolio/subaccounts", Absent, Absent, 10))>>

get_portfolio_subaccounts_large(a, body) ==
    <<Return(Call("GET", BASE_URL \o "/portfolio/subaccounts2", Absent, Absent, 30))>>

get_account_meta_sig == <<PathP("accountId", "str")>>

get_account_meta(a, body) ==
    <<Return(Call("GET", BASE_URL \o "/portfolio/" \o PyStr(a.accountId) \o "/meta",
                  Absent, Absent, 10))>>

get_account_allocation_sig == <<PathP("accountId", "str")>>

get_account_allocation(a, body) ==
    <<Return(Call("GET", BASE_URL \o "/portfolio/" \o PyStr(a.accountId) \o "/allocation",
                  Absent, Absent, 10))>>

get_combo_positions_sig == <<PathP("accountId", "str")>>

get_combo_positions(a, body) ==
    <<Return(Call("GET", BASE_URL \o "/portfolio/" \o PyStr(a.accountId) \o "/combo/positions",
                  Absent, Absent, 10))>>

get_all_accounts_allocation(a, body) ==
    <<Return(Call("POST", BASE_URL \o "/portfolio/allocation",
                  Absent, model_dump(body, FALSE), 20))>>

get_positions_sig ==
    <<PathP("accountId", "str"), PathP("pageId", "int"), Opt("model", "str", None),
      Opt("sort", "str", None), Opt("direction", "str", None), Opt("period", "str", None)>>

get_positions(a, body) ==
    LET p0 == EmptyKV
        p1 == IF Truthy(a.model) THEN Put(p0, "model", a.model) ELSE p0
        p2 == IF Truthy(a.sort) THEN Put(p1, "sort", a.sort) ELSE p1
        p3 == IF Truthy(a.direction) THEN Put(p2, "direction", a.direction) ELSE p2
        params == IF Truthy(a.period) THEN Put(p3, "period", a.period) ELSE p3
    IN <<Return(Call("GET", BASE_URL \o "/portfolio/" \o PyStr(a.accountId) \o "/positions/"
                            \o PyStr(a.pageId),
                     VDict(params), Absent, 10))>>

get_position_by_conid_sig == <<PathP("acctId", "str"), PathP("conid", "int")>>

get_position_by_conid(a, body) ==
    <<Return(Call("GET", BASE_URL \o "/portfolio/" \o PyStr(a.acctId) \o "/position/"
                         \o PyStr(a.conid),
                  Absent, Absent, 10))>>

invalidate_portfolio_cache_sig == <<PathP("accountId", "str")>>

invalidate_portfolio_cache(a, body) ==
    <<Return(Call("POST", BASE_URL \o "/portfolio/" \o PyStr(a.accountId) \o "/positions/invalidate",
                  Absent, Absent, 10))>>

get_account_summary_sig == <<PathP("accountId", "str")>>

get_account_summary(a, body) ==
    <<Return(Call("GET", BASE_URL \o "/portfolio/" \o PyStr(a.accountId) \o "/summary",
                  Absent, Absent, 10))>>

get_account_ledger_sig == <<PathP("accountId", "str")>>

get_account_ledger(a, body) ==
    <<Return(Call("GET", BASE_URL \o "/portfolio/" \o PyStr(a.accountId) \o "/ledger",
                  Absent, Absent, 10))>>

get_all_positions_by_conid_sig == <<PathP("conid", "int")>>

get_all_positions_by_conid(a, body) ==
    <<Return(Call("GET", BASE_URL \o "/portfolio/positions/" \o PyStr(a.conid),
                  Absent, Absent, 10))>>

(* ------------------------------------------------------------------ *)
(* watchlists.py                                                        *)
(* ------------------------------------------------------------------ *)
get_watchlists(a, body) ==
    <<Return(Call("GET", BASE_URL \o "/iserver/account/watchlists", Absent, Absent, 10))>>

get_watchlist_contracts_sig == <<PathP("watchlistId", "str")>>

get_watchlist_contracts(a, body) ==
    <<Return(Call("GET", BASE_URL \o "/iserver/account/watchlist/" \o PyStr(a.watchlistId),
                  Absent, Absent, 10))>>

create_watchlist_sig == <<PathP("accountId", "str")>>

create_watchlist(a, body) ==
    <<Return(Call("POST", BASE_URL \o "/iserver/account/" \o PyStr(a.accountId) \o "/watchlist",
                  Absent, model_dump(body, TRUE), 10))>>

add_contracts_to_watchlist_sig == <<PathP("watchlistId", "str")>>

add_contracts_to_watchlist(a, body) ==
    <<Return(Call("POST", BASE_URL \o "/iserver/account/watchlist/" \o PyStr(a.watchlistId)
                          \o "/contract",
                  Absent, model_dump(body, FALSE), 10))>>

delete_watchlist_sig == <<PathP("watchlistId", "str")>>

delete_watchlist(a, body) ==
    <<Return(Call("DELETE", BASE_URL \o "/iserver/account/watchlist/" \o PyStr(a.watchlistId),
                  Absent, Absent, 10))>>

delete_contract_from_watchlist_sig == <<PathP("watchlistId", "str"), PathP("conid", "str")>>

delete_contract_from_watchlist(a, body) ==
    <<Return(Call("DELETE", BASE_URL \o "/iserver/account/watchlist/" \o PyStr(a.watchlistId)
                            \o "/contract/" \o PyStr(a.conid),
                  Absent, Absent, 10))>>

(* ------------------------------------------------------------------ *)
(* The route table: every @router.<method>(path) of the seven routers   *)
(* ------------------------------------------------------------------ *)
StaticRoutes ==
    {"get_available_fields", "get_availability_codes", "get_hmds_history_rules",
     "get_iserver_history_rules"}

ForwardRoutes ==
    {"get_contract_algos", "get_contract_info_and_rules", "get_contract_info",
     "get_bond_filters", "search_currency_pairs", "get_secdef_info",
     "search_contract_by_symbol_or_name", "get_contract_rules", "get_strikes",
     "get_trsrv_futures_by_symbol", "get_secdef_by_conids", "get_stocks_by_symbol",
     "get_trading_schedule", "get_fa_groups", "create_fa_group",
     "get_fyi_unread_number", "get_fyi_delivery_options",
     "configure_fyi_delivery_options", "configure_device_delivery_options",
     "get_fyi_settings", "configure_fyi_setting", "mark_notifications_as_read",
     "get_notifications", "get_marketdata_snapshot", "get_md_snapshot",
     "get_marketdata_history", "get_hmds_history", "unsubscribe_market_data",
     "unsubscribe_all_market_data", "place_order", "preview_order", "modify_order",
     "cancel_order", "place_order_reply", "get_portfolio_accounts",
     "get_portfolio_subaccounts", "get_portfolio_subaccounts_large", "get_account_meta",
     "get_account_allocation", "get_combo_positions", "get_all_accounts_allocation",
     "get_positions", "get_position_by_conid", "invalidate_portfolio_cache",
     "get_account_summary", "get_account_ledger", "get_all_positions_by_conid",
     "get_watchlists", "get_watchlist_contracts", "create_watchlist",
     "add_contracts_to_watchlist", "delete_watchlist", "delete_contract_from_watchlist"}

Routes == StaticRoutes \cup ForwardRoutes

\* The path and query parameters a handler declares.
Sig(route) ==
    CASE route = "get_contract_algos" -> get_contract_algos_sig
      [] route = "get_contract_info_and_rules" -> get_contract_info_and_rules_sig
      [] route = "get_contract_info" -> get_contract_info_sig
      [] route = "get_bond_filters" -> get_bond_filters_sig
      [] route = "search_currency_pairs" -> search_currency_pairs_sig
      [] route = "get_secdef_info" -> get_secdef_info_sig
      [] route = "search_contract_by_symbol_or_name" -> search_contract_by_symbol_or_name_sig
      [] route = "get_strikes" -> get_strikes_sig
      [] route = "get_trsrv_futures_by_symbol" -> get_trsrv_futures_by_symbol_sig
      [] route = "get_secdef_by_conids" -> get_secdef_by_conids_sig
      [] route = "get_stocks_by_symbol" -> get_stocks_by_symbol_sig
      [] route = "get_trading_schedule" -> get_trading_schedule_sig
      [] route = "configure_fyi_setting" -> configure_fyi_setting_sig
      [] route = "get_notifications" -> get_notifications_sig
      [] route = "get_marketdata_snapshot" -> get_marketdata_snapshot_sig
      [] route = "get_md_snapshot" -> get_md_snapshot_sig
      [] route = "get_marketdata_history" -> get_marketdata_history_sig
      [] route = "get_hmds_history" -> get_hmds_history_sig
      [] route = "place_order" -> place_order_sig
      [] route = "preview_order" -> preview_order_sig
      [] route = "modify_order" -> modify_order_sig
      [] route = "cancel_order" -> cancel_order_sig
      [] route = "place_order_reply" -> place_order_reply_sig
      [] route = "get_account_meta" -> get_account_meta_sig
      [] route = "get_account_allocation" -> get_account_allocation_sig
      [] route = "get_combo_positions" -> get_combo_positions_sig
      [] route = "get_positions" -> get_positions_sig
      [] route = "get_position_by_conid" -> get_position_by_conid_sig
      [] route = "invalidate_portfolio_cache" -> invalidate_portfolio_cache_sig
      [] route = "get_account_summary" -> get_account_summary_sig
      [] route = "get_account_ledger" -> get_account_ledger_sig
      [] route = "get_all_positions_by_conid" -> get_all_positions_by_conid_sig
      [] route = "get_watchlist_contracts" -> get_watchlist_contracts_sig
      [] route = "create_watchlist" -> create_watchlist_sig
      [] route = "add_contracts_to_watchlist" -> add_contracts_to_watchlist_sig
      [] route = "delete_watchlist" -> delete_watchlist_sig
      [] route = "delete_contract_from_watchlist" -> delete_contract_from_watchlist_sig
      [] OTHER -> <<>>

\* The model of `body: <Model> = Body(...)`, "none" for a handler without a body.
BodyModel(route) ==
    CASE route = "get_contract_rules" -> "ContractRulesRequest"
      [] route = "create_fa_group" -> "FAGroup"
      [] route = "configure_fyi_delivery_options" -> "DeliveryOptionsRequest"
      [] route = "configure_device_delivery_options" -> "DeviceDeliveryOptionsRequest"
      [] route = "get_fyi_settings" -> "FYISettingsGetRequest"
      [] route = "configure_fyi_setting" -> "FYISettingsRequest"
      [] route = "mark_notifications_as_read" -> "MarkReadRequest"
      [] route = "unsubscribe_market_data" -> "UnsubscribeRequest"
      [] route = "place_order" -> "OrdersRequest"
      [] route = "preview_order" -> "OrdersRequest"
      [] route = "modify_order" -> "OrderModel"
      [] route = "place_order_reply" -> "ReplyRequest"
      [] route = "get_all_accounts_allocation" -> "AccountAllocationRequest"
      [] route = "create_watchlist" -> "WatchlistCreateRequest"
      [] route = "add_contracts_to_watchlist" -> "WatchlistContractsRequest"
      [] OTHER -> "none"

\* The upstream calls of a handler, in the order it awaits them.
Handler(route, a, body) ==
    CASE route = "get_contract_algos" -> get_contract_algos(a, body)
      [] route = "get_contract_info_and_rules" -> get_contract_info_and_rules(a, body)
      [] route = "get_contract_info" -> get_contract_info(a, body)
      [] route = "get_bond_filters" -> get_bond_filters(a, body)
      [] route = "search_currency_pairs" -> search_currency_pairs(a, body)
      [] route = "get_secdef_info" -> get_secdef_info(a, body)
      [] route = "search_contract_by_symbol_or_name" -> search_contract_by_symbol_or_name(a, body)
      [] route = "get_contract_rules" -> get_contract_rules(a, body)
      [] route = "get_strikes" -> get_strikes(a, body)
      [] route = "get_trsrv_futures_by_symbol" -> get_trsrv_futures_by_symbol(a, body)
      [] route = "get_secdef_by_conids" -> get_secdef_by_conids(a, body)
      [] route = "get_stocks_by_symbol" -> get_stocks_by_symbol(a, body)
      [] route = "get_trading_schedule" -> get_trading_schedule(a, body)
      [] route = "get_fa_groups" -> get_fa_groups(a, body)
      [] route = "create_fa_group" -> create_fa_group(a, body)
      [] route = "get_fyi_unread_number" -> get_fyi_unread_number(a, body)
      [] route = "get_fyi_delivery_options" -> get_fyi_delivery_options(a, body)
      [] route = "configure_fyi_delivery_options" -> configure_fyi_delivery_options(a, body)
      [] route = "configure_device_delivery_options" -> configure_device_delivery_options(a, body)
      [] route = "get_fyi_settings" -> get_fyi_settings(a, body)
      [] route = "configure_fyi_setting" -> configure_fyi_setting(a, body)
      [] route = "mark_notifications_as_read" -> mark_notifications_as_read(a, body)
      [] route = "get_notifications" -> get_notifications(a, body)
      [] route = "get_marketdata_snapshot" -> get_marketdata_snapshot(a, body)
      [] route = "get_md_snapshot" -> get_md_snapshot(a, body)
      [] route = "get_marketdata_history" -> get_marketdata_history(a, body)
      [] route = "get_hmds_history" -> get_hmds_history(a, body)
      [] route = "unsubscribe_market_data" -> unsubscribe_market_data(a, body)
      [] route = "unsubscribe_all_market_data" -> unsubscribe_all_market_data(a, body)
      [] route = "place_order" -> place_order(a, body)
      [] route = "preview_order" -> preview_order(a, body)
      [] route = "modify_order" -> modify_order(a, body)
      [] route = "cancel_order" -> cancel_order(a, body)
      [] route = "place_order_reply" -> place_order_reply(a, body)
      [] route = "get_portfolio_accounts" -> get_portfolio_accounts(a, body)
      [] route = "get_portfolio_subaccounts" -> get_portfolio_subaccounts(a, body)
      [] route = "get_portfolio_subaccounts_large" -> get_portfolio_subaccounts_large(a, body)
      [] route = "get_account_meta" -> get_account_meta(a, body)
      [] route = "get_account_allocation" -> get_account_allocation(a, body)
      [] route = "get_combo_positions" -> get_combo_positions(a, body)
      [] route = "get_all_accounts_allocation" -> get_all_accounts_allocation(a, body)
      [] route = "get_positions" -> get_positions(a, body)
      [] route = "get_position_by_conid" -> get_position_by_conid(a, body)
      [] route = "invalidate_portfolio_cache" -> invalidate_portfolio_cache(a, body)
      [] route = "get_account_summary" -> get_account_summary(a, body)
      [] route = "get_account_ledger" -> get_account_ledger(a, body)
      [] route = "get_all_positions_by_conid" -> get_all_positions_by_conid(a, body)
      [] route = "get_watchlists" -> get_watchlists(a, body)
      [] route = "get_watchlist_contracts" -> get_watchlist_contracts(a, body)
      [] route = "create_watchlist" -> create_watchlist(a, body)
      [] route = "add_contracts_to_watchlist" -> add_contracts_to_watchlist(a, body)
      [] route = "delete_watchlist" -> delete_watchlist(a, body)
      [] route = "delete_contract_from_watchlist" -> delete_contract_from_watchlist(a, body)
      [] OTHER -> <<>>

\* What a handler without upstream call returns.
StaticValue(route) ==
    CASE route = "get_available_fields" -> get_available_fields
      [] route = "get_availability_codes" -> get_availability_codes
      [] route = "get_hmds_history_rules" -> get_hmds_history_rules
      [] route = "get_iserver_history_rules" -> get_iserver_history_rules

\* The registrations @router.get / post / put / delete (path): the inbound method
\* and path of each handler, the path cut at its {parameters}.
router(route) ==
      CASE route = "get_contract_algos" ->
            [method |-> "GET", path |-> <<"/iserver/contract/", "{conid}", "/algos">>]
        [] route = "get_contract_info_and_rules" ->
            [method |-> "GET", path |-> <<"/iserver/contract/", "{conid}", "/info-and-rules">>]
        [] route = "get_contract_info" ->
            [method |-> "GET", path |-> <<"/iserver/contract/", "{conid}", "/info">>]
        [] route = "get_bond_filters" ->
            [method |-> "GET", path |-> <<"/iserver/secdef/bond-filters">>]
        [] route = "search_currency_pairs" ->
            [method |-> "GET", path |-> <<"/iserver/secdef/currency">>]
        [] route = "get_secdef_info" ->
            [method |-> "GET", path |-> <<"/iserver/secdef/info">>]
        [] route = "search_contract_by_symbol_or_name" ->
            [method |-> "GET", path |-> <<"/iserver/secdef/search">>]
        [] route = "get_contract_rules" ->
            [method |-> "POST", path |-> <<"/iserver/contract/rules">>]
        [] route = "get_strikes" ->
            [method |-> "GET", path |-> <<"/iserver/secdef/strikes">>]
        [] route = "get_trsrv_futures_by_symbol" ->
            [method |-> "GET", path |-> <<"/trsrv/futures">>]
        [] route = "get_secdef_by_conids" ->
            [method |-> "GET", path |-> <<"/trsrv/secdef">>]
        [] route = "get_stocks_by_symbol" ->
            [method |-> "GET", path |-> <<"/trsrv/stocks">>]
        [] route = "get_trading_schedule" ->
            [method |-> "GET", path |-> <<"/trsrv/secdef/schedule">>]
        [] route = "get_fa_groups" ->
            [method |-> "GET", path |-> <<"/fa/groups">>]
        [] route = "create_fa_group" ->
            [method |-> "POST", path |-> <<"/fa/groups">>]
        [] route = "get_fyi_unread_number" ->
            [method |-> "GET", path |-> <<"/fyi/unreadnumber">>]
        [] route = "get_fyi_delivery_options" ->
            [method |-> "GET", path |-> <<"/fyi/deliveryoptions">>]
        [] route = "configure_fyi_delivery_options" ->
            [method |-> "POST", path |-> <<"/fyi/deliveryoptions">>]
        [] route = "configure_device_delivery_options" ->
            [method |-> "PUT", path |-> <<"/fyi/deliveryoptions/device">>]
        [] route = "get_fyi_settings" ->
            [method |-> "POST", path |-> <<"/fyi/settings">>]
        [] route = "configure_fyi_setting" ->
            [method |-> "PUT", path |-> <<"/fyi/settings/", "{typecode}">>]
        [] route = "mark_notifications_as_read" ->
            [method |-> "DELETE", path |-> <<"/fyi/notifications">>]
        [] route = "get_notifications" ->
            [method |-> "GET", path |-> <<"/fyi/notifications">>]
        [] route = "get_available_fields" ->
            [method |-> "GET", path |-> <<"/iserver/marketdata/fields">>]
        [] route = "get_availability_codes" ->
            [method |-> "GET", path |-> <<"/iserver/marketdata/availability">>]
        [] route = "get_hmds_history_rules" ->
            [method |-> "GET", path |-> <<"/hmds/history/rules">>]
        [] route = "get_iserver_history_rules" ->
            [method |-> "GET", path |-> <<"/iserver/marketdata/history/rules">>]
        [] route = "get_marketdata_snapshot" ->
            [method |-> "GET", path |-> <<"/iserver/marketdata/snapshot">>]
        [] route = "get_md_snapshot" ->
            [method |-> "GET", path |-> <<"/md/snapshot">>]
        [] route = "get_marketdata_history" ->
            [method |-> "GET", path |-> <<"/iserver/marketdata/history">>]
        [] route = "get_hmds_history" ->
            [method |-> "GET", path |-> <<"/hmds/history">>]
        [] route = "unsubscribe_market_data" ->
            [method |-> "POST", path |-> <<"/iserver/marketdata/unsubscribe">>]
        [] route = "unsubscribe_all_market_data" ->
            [method |-> "POST", path |-> <<"/iserver/marketdata/unsubscribeall">>]
        [] route = "place_order" ->
            [method |-> "POST", path |-> <<"/iserver/account/", "{accountId}", "/orders">>]
        [] route = "preview_order" ->
            [method |-> "POST", path |-> <<"/iserver/account/", "{accountId}", "/orders/whatif">>]
        [] route = "modify_order" ->
            [method |-> "POST", path |-> <<"/iserver/account/", "{accountId}", "/order/", "{orderId}">>]
        [] route = "cancel_order" ->
            [method |-> "DELETE", path |-> <<"/iserver/account/", "{accountId}", "/order/", "{orderId}">>]
        [] route = "place_order_reply" ->
            [method |-> "POST", path |-> <<"/iserver/reply/", "{replyId}">>]
        [] route = "get_portfolio_accounts" ->
            [method |-> "GET", path |-> <<"/portfolio/accounts">>]
        [] route = "get_portfolio_subaccounts" ->
            [method |-> "GET", path |-> <<"/portfolio/subaccounts">>]
        [] route = "get_portfolio_subaccounts_large" ->
            [method |-> "GET", path |-> <<"/portfolio/subaccounts2">>]
        [] route = "get_account_meta" ->
            [method |-> "GET", path |-> <<"/portfolio/", "{accountId}", "/meta">>]
        [] route = "get_account_allocation" ->
            [method |-> "GET", path |-> <<"/portfolio/", "{accountId}", "/allocation">>]
        [] route = "get_combo_positions" ->
            [method |-> "GET", path |-> <<"/portfolio/", "{accountId}", "/combo/positions">>]
        [] route = "get_all_accounts_allocation" ->
            [method |-> "POST", path |-> <<"/portfolio/allocation">>]
        [] route = "get_positions" ->
            [method |-> "GET", path |-> <<"/portfolio/", "{accountId}", "/positions/", "{pageId}">>]
        [] route = "get_position_by_conid" ->
            [method |-> "GET", path |-> <<"/portfolio/", "{acctId}", "/position/", "{conid}">>]
        [] route = "invalidate_portfolio_cache" ->
            [method |-> "POST", path |-> <<"/portfolio/", "{accountId}", "/positions/invalidate">>]
        [] route = "get_account_summary" ->
            [method |-> "GET", path |-> <<"/portfolio/", "{accountId}", "/summary">>]
        [] route = "get_account_ledger" ->
            [method |-> "GET", path |-> <<"/portfolio/", "{accountId}", "/ledger">>]
        [] route = "get_all_positions_by_conid" ->
            [method |-> "GET", path |-> <<"/portfolio/positions/", "{conid}">>]
        [] route = "get_watchlists" ->
            [method |-> "GET", path |-> <<"/iserver/account/watchlists">>]
        [] route = "get_watchlist_contracts" ->
            [method |-> "GET", path |-> <<"/iserver/account/watchlist/", "{watchlistId}">>]
        [] route = "create_watchlist" ->
            [method |-> "POST", path |-> <<"/iserver/account/", "{accountId}", "/watchlist">>]
        [] route = "add_contracts_to_watchlist" ->
            [method |-> "POST", path |-> <<"/iserver/account/watchlist/", "{watchlistId}", "/contract">>]
        [] route = "delete_watchlist" ->
            [method |-> "DELETE", path |-> <<"/iserver/account/watchlist/", "{watchlistId}">>]
        [] route = "delete_contract_from_watchlist" ->
            [method |-> "DELETE", path |-> <<"/iserver/account/watchlist/", "{watchlistId}", "/contract/", "{conid}">>]

\* The declared return annotation (-> ...), "none" where the handler declares none.
ReturnType(route) ==
    CASE route = "get_available_fields" -> "List[Dict[str, str]]"
      [] route = "get_availability_codes" -> "Dict[str, Dict[str, str]]"
      [] route = "get_hmds_history_rules" -> "Dict[str, Any]"
      [] route = "get_iserver_history_rules" -> "Dict[str, Any]"
      [] route = "get_marketdata_snapshot" -> "List[Dict[str, Any]]"
      [] OTHER -> "none"

(* ------------------------------------------------------------------ *)
(* The callers' requests and the upstream's answers the model draws     *)
(* ------------------------------------------------------------------ *)
\* The most orders one OrdersRequest of the model carries.
MaxOrders == 2

\* The raw strings a caller writes for a path or query parameter.
RawValues(d) ==
    CASE d.type = "str" /\ d.in = "path" -> {d.name}
      [] d.type = "str" /\ d.required -> {"A"}
      [] d.type = "str" -> {"", "A"}
      [] d.type = "bool" -> {"true", "false", "x"}
      [] d.in = "path" -> {"7", "x"}
      [] OTHER -> {"0", "7", "x"}

\* Every assignment of raw strings to the declared parameters of kind `where`;
\* a query parameter may also be left out.
RECURSIVE RawParams(_, _, _)
RawParams(sig, where, i) ==
    IF i > Len(sig) THEN {EmptyKV}
    ELSE LET rest == RawParams(sig, where, i + 1)
             d == sig[i]
         IN IF d.in # where THEN rest
            ELSE {Put(f, d.name, v) : f \in rest, v \in RawValues(d)}
                 \cup (IF where = "query" THEN rest ELSE {})

SpecOrder ==
    [orderType |-> VStr("LMT"), side |-> VStr("BUY"), tif |-> VStr("DAY"),
     quantity |-> VInt(10), conid |-> VInt(265598)]

RawOrders ==
    {VDict(SpecOrder),
     VDict(Put(Put(Put(Put(SpecOrder, "price", VFloat(7)), "outsideRTH", VBool(TRUE)),
                   "acctId", None), "ticker", VStr("IBM"))),
     VDict([orderType |-> VStr("MKT"), tif |-> VStr("DAY"), quantity |-> VFloat(1)]),
     VDict(Put(SpecOrder, "quantity", VStr("ten")))}

RECURSIVE SeqsUpTo(_, _)
SeqsUpTo(S, n) ==
    IF n = 0 THEN {<<>>}
    ELSE LET shorter == SeqsUpTo(S, n - 1)
         IN shorter \cup {Append(q, x) : q \in {s \in shorter : Len(s) = n - 1}, x \in S}

SpecGroup ==
    [name |-> VStr("MyTestGroup"), method |-> VStr("Ratio"),
     accounts |-> VList(<<VDict([id |-> VStr("DU123456"), amount |-> VFloat(60)]),
                          VDict([id |-> VStr("DU123457"), amount |-> VFloat(40)])>>)]

\* A well-typed JSON value for a declared field type.
RECURSIVE Example(_)
Example(type) ==
    CASE type = "str" -> VStr("A")
      [] type = "int" -> VInt(7)
      [] type = "float" -> VFloat(7)
      [] type = "bool" -> VBool(TRUE)
      [] type = "dict" -> VDict([k |-> VStr("A")])
      [] ElemType(type) # "none" -> VList(<<Example(ElemType(type))>>)
      [] type \in ModelNames ->
            LET fields == ModelFields(type)
            IN VDict([name \in FieldNames(fields) |-> Example(FieldOf(fields, name).type)])

\* A JSON value no declared field type accepts.
Mistyped == VDict(EmptyKV)

\* The lists of notification ids a caller asks to mark as read.
NotificationIdLists == {<<>>, <<VStr("A")>>, <<VStr("B"), VStr("A")>>}

\* The JSON bodies a caller sends to a route whose body is model m: none at all, a
\* well-typed one, one with a field left out, one with a field of the wrong type.
RawBodies(m) ==
    IF m = "none" THEN {Absent}
    ELSE {Absent, Mistyped} \cup
         (CASE m = "OrdersRequest" ->
                 {VDict([orders |-> VList(q)]) : q \in SeqsUpTo(RawOrders, MaxOrders)}
            [] m = "OrderModel" -> RawOrders
            [] m = "MarkReadRequest" ->
                 {VDict([notificationIds |-> VList(ids)]) : ids \in NotificationIdLists}
                 \cup {VDict(EmptyKV), VDict([notificationIds |-> VStr("A")])}
            [] m = "FAGroup" ->
                 {VDict(SpecGroup), VDict(Put(SpecGroup, "accounts", VList(<<>>))),
                  VDict([name |-> VStr("MyTestGroup"), method |-> VStr("Ratio")]),
                  VDict(Put(SpecGroup, "accounts", VList(<<VDict([id |-> VStr("DU123456")])>>)))}
            [] OTHER ->
                 LET ex == Example(m).kv
                 IN {VDict(ex)}
                    \cup {VDict([k \in DOMAIN ex \ {name} |-> ex[k]]) : name \in DOMAIN ex}
                    \cup {VDict(Put(ex, name, Mistyped)) : name \in DOMAIN ex})

\* Query strings that carry a key the handler does not declare.
UndeclaredQueries(route) ==
    IF route = "get_bond_filters"
    THEN {("issuerId" :> "e1234") @@ ("symbol" :> "STK"), ("symbol" :> "STK")}
    ELSE {}

\* An inbound request as it reaches the framework.
Inbound(route) ==
    {[path |-> p, query |-> q, body |-> b] :
        p \in RawParams(Sig(route), "path", 1),
        q \in RawParams(Sig(route), "query", 1) \cup UndeclaredQueries(route),
        b \in RawBodies(BodyModel(route))}

\* httpx writing a params= value into the query string: booleans as "true" and
\* "false", None as the empty string, anything else as str(value).
primitive_value_to_str(v) ==
    CASE v.ty = "bool" -> (IF v.b THEN "true" ELSE "false")
      [] v.ty = "none" -> ""
      [] OTHER -> PyStr(v)

\* The upstream's answer to one call: an HTTP response, or no response at all.
Response(status, text) == [kind |-> "response", status |-> status, text |-> text]
TransportFailure(msg) == [kind |-> "error", msg |-> msg]

Responses ==
    {Response(200, text) : text \in {"[{}]", "{}", "{\"total\": 1}", ""}}
    \cup {Response(status, text) : status \in {401, 500}, text \in {"unauthorized", ""}}

\* str(exc) of the httpx.RequestError the transport raises (httpx's timeout
\* exceptions carry no message).
FailureMessages == {"All connection attempts failed", ""}

(* ------------------------------------------------------------------ *)
(* httpx.Response                                                       *)
(* ------------------------------------------------------------------ *)
\* Response.is_success, which raise_for_status() tests
is_success(resp) == 200 <= resp.status /\ resp.status <= 299

\* The JSON documents the model's upstream sends.
JsonDocuments ==
    ("[{}]" :> VList(<<VDict(EmptyKV)>>)) @@ ("{}" :> VDict(EmptyKV))
    @@ ("{\"total\": 1}" :> VDict([total |-> VInt(1)]))

\* Response.json() handing back the parsed document inside a {"data": ...} wrapper.
json_wrapped(resp) ==
    IF resp.text \in DOMAIN JsonDocuments
    THEN VDict([data |-> JsonDocuments[resp.text]])
    ELSE Invalid

\* Response.json(): json.loads(text); raises json.JSONDecodeError (a ValueError)
\* on any other text
json(resp) == IF resp.text \in DOMAIN JsonDocuments THEN JsonDocuments[resp.text] ELSE Invalid

(* ------------------------------------------------------------------ *)
(* The framework around a handler                                       *)
(* ------------------------------------------------------------------ *)
\* The request slots: each holds one request from arrival to response.
Reqs == {1, 2}

\* The handler's arguments for `inb`: its path and query parameters, and its body.
Bound(r, inb) ==
    [args |-> BindParams(Sig(r), inb),
     body |-> IF BodyModel(r) = "none" THEN Absent
              ELSE IF inb.body = Absent THEN Invalid
              ELSE Validate(BodyModel(r), inb.body)]

\* FastAPI calls the handler only with every declared input valid;
\* otherwise it answers 422 itself.
Accepted(r, inb) ==
    LET b == Bound(r, inb)
    IN /\ \A name \in DOMAIN b.args : b.args[name] # Invalid
       /\ b.body # Invalid

\* Whether a returned value fits the handler's return annotation, which FastAPI
\* uses as the response model.
Conforms(type, v) ==
    CASE type = "none" -> TRUE
      [] type = "Dict[str, Any]" -> v.ty = "dict"
      [] type = "List[Dict[str, Any]]" ->
            v.ty = "list" /\ \A i \in DOMAIN v.items : v.items[i].ty = "dict"
      [] type = "List[Dict[str, str]]" ->
            /\ v.ty = "list"
            /\ \A i \in DOMAIN v.items :
                  /\ v.items[i].ty = "dict"
                  /\ \A k \in DOMAIN v.items[i].kv : v.items[i].kv[k].ty = "str"
      [] type = "Dict[str, Dict[str, str]]" ->
            /\ v.ty = "dict"
            /\ \A k \in DOMAIN v.kv :
                  /\ v.kv[k].ty = "dict"
                  /\ \A j \in DOMAIN v.kv[k].kv : v.kv[k].kv[j].ty = "str"

\* The HTTP status the caller gets for a value the handler returned.
Delivered(r, v) == IF Conforms(ReturnType(r), v) THEN 200 ELSE 500

(* ------------------------------------------------------------------ *)
(* The two error envelopes of every handler                             *)
(* ------------------------------------------------------------------ *)
\* HTTPStatusError with detail taken from str(exc) instead of exc.response.text.
HTTPStatusError_ExceptionText(resp) ==
    VDict([error |-> VStr("IBKR API Error"), status_code |-> VInt(resp.status),
           detail |-> VStr("HTTP error")])

\* HTTPStatusError naming the error "Upstream API Error".
HTTPStatusError_Upstream(resp) ==
    VDict([error |-> VStr("Upstream API Error"), status_code |-> VInt(resp.status),
           detail |-> VStr(resp.text)])

\* except httpx.HTTPStatusError as exc
HTTPStatusError(resp) ==
    VDict([error |-> VStr("IBKR API Error"), status_code |-> VInt(resp.status),
           detail |-> VStr(resp.text)])

\* RequestError with a status_code field of 0 added.
RequestError_WithStatus(exc) ==
    VDict([error |-> VStr("Request Error"), status_code |-> VInt(0), detail |-> VStr(exc.msg)])

\* except httpx.RequestError as exc
RequestError(exc) ==
    VDict([error |-> VStr("Request Error"), detail |-> VStr(exc.msg)])

(* ------------------------------------------------------------------ *)
(* State                                                                *)
(* ------------------------------------------------------------------ *)
VARIABLES
    pc,      \* per slot: "idle", "awaiting", "returned", "rejected", "fault"
    route,   \* the handler the request was routed to
    inb,     \* the inbound request as sent by the caller
    args,    \* the handler's path and query arguments
    body,    \* the handler's validated body
    calls,   \* the upstream calls issued so far, each with the client it went out on
    outs,    \* the upstream's answers to them
    client,  \* the handler's httpx.AsyncClient: "none", "open", "closed"
    ret,     \* the value the handler returned
    http,    \* the HTTP status the caller received
    tables   \* the module-level reference tables, by the static handler that returns them

vars == <<pc, route, inb, args, body, calls, outs, client, ret, http, tables>>

Init ==
    /\ pc = [r \in Reqs |-> "idle"]
    /\ route = [r \in Reqs |-> "none"]
    /\ inb = [r \in Reqs |-> Absent]
    /\ args = [r \in Reqs |-> EmptyKV]
    /\ body = [r \in Reqs |-> Absent]
    /\ calls = [r \in Reqs |-> <<>>]
    /\ outs = [r \in Reqs |-> <<>>]
    /\ client = [r \in Reqs |-> "none"]
    /\ ret = [r \in Reqs |-> Absent]
    /\ http = [r \in Reqs |-> 0]
    /\ tables = [rt \in StaticRoutes |-> StaticValue(rt)]

\* The calls the handler running in slot r makes, in order.
Plan(r) == Handler(route[r], args[r], body[r])

\* client.get / post / put / delete / send on the handler's one client
Sent(c) == [call |-> c, client |-> 1]

\* A handler that creates its client without `async with` and never closes it.
Finish_ClientLeftOpen(r, status, value, state) ==
    /\ pc' = [pc EXCEPT ![r] = state]
    /\ ret' = [ret EXCEPT ![r] = value]
    /\ http' = [http EXCEPT ![r] = status]
    /\ client' = client

\* The handler ends: `async with` closes the client on the way out.
Finish(r, status, value, state) ==
    /\ pc' = [pc EXCEPT ![r] = state]
    /\ ret' = [ret EXCEPT ![r] = value]
    /\ http' = [http EXCEPT ![r] = status]
    /\ client' = [client EXCEPT ![r] = "closed"]

\* A request with a missing or unconvertible input: refused before the handler runs.
Reject(r, rt, i) ==
    /\ pc[r] = "idle"
    /\ ~Accepted(rt, i)
    /\ pc' = [pc EXCEPT ![r] = "rejected"]
    /\ route' = [route EXCEPT ![r] = rt]
    /\ inb' = [inb EXCEPT ![r] = i]
    /\ http' = [http EXCEPT ![r] = 422]
    /\ UNCHANGED <<args, body, calls, outs, client, ret, tables>>

\* A reference-table handler that empties its table once it has returned it.
Static_Consuming(r, rt) ==
    /\ pc[r] = "idle"
    /\ pc' = [pc EXCEPT ![r] = "returned"]
    /\ route' = [route EXCEPT ![r] = rt]
    /\ ret' = [ret EXCEPT ![r] = tables[rt]]
    /\ http' = [http EXCEPT ![r] = Delivered(rt, tables[rt])]
    /\ tables' = [tables EXCEPT ![rt] = VList(<<>>)]
    /\ UNCHANGED <<inb, args, body, calls, outs, client>>

\* One of the four reference-table handlers: returns its table.
Static(r, rt) ==
    /\ pc[r] = "idle"
    /\ pc' = [pc EXCEPT ![r] = "returned"]
    /\ route' = [route EXCEPT ![r] = rt]
    /\ ret' = [ret EXCEPT ![r] = tables[rt]]
    /\ http' = [http EXCEPT ![r] = Delivered(rt, tables[rt])]
    /\ UNCHANGED <<inb, args, body, calls, outs, client, tables>>

\* A forwarding handler starts: it opens its client and awaits its first call.
Start(r, rt, i) ==
    /\ pc[r] = "idle"
    /\ Accepted(rt, i)
    /\ LET b == Bound(rt, i)
       IN /\ args' = [args EXCEPT ![r] = b.args]
          /\ body' = [body EXCEPT ![r] = b.body]
          /\ calls' = [calls EXCEPT ![r] = <<Sent(Handler(rt, b.args, b.body)[1].call)>>]
    /\ pc' = [pc EXCEPT ![r] = "awaiting"]
    /\ route' = [route EXCEPT ![r] = rt]
    /\ inb' = [inb EXCEPT ![r] = i]
    /\ client' = [client EXCEPT ![r] = "open"]
    /\ UNCHANGED <<outs, ret, http, tables>>

\* A handler that shields a call whose response it drops from httpx.RequestError:
\* the failure of such a call is passed over and the next call goes out.
OnRequestError_Shielded(r, exc) ==
    /\ pc[r] = "awaiting"
    /\ outs' = [outs EXCEPT ![r] = Append(@, exc)]
    /\ IF Plan(r)[Len(calls[r])].use
       THEN /\ Finish(r, Delivered(route[r], RequestError(exc)), RequestError(exc), "returned")
            /\ UNCHANGED <<route, inb, args, body, calls, tables>>
       ELSE /\ calls' = [calls EXCEPT ![r] = Append(@, Sent(Plan(r)[Len(calls[r]) + 1].call))]
            /\ UNCHANGED <<pc, route, inb, args, body, client, ret, http, tables>>

\* The awaited call raises httpx.RequestError: caught, the envelope is returned.
OnRequestError(r, exc) ==
    /\ pc[r] = "awaiting"
    /\ outs' = [outs EXCEPT ![r] = Append(@, exc)]
    /\ Finish(r, Delivered(route[r], RequestError(exc)), RequestError(exc), "returned")
    /\ UNCHANGED <<route, inb, args, body, calls, tables>>

\* A handler that opens a second client for the call after a dropped response.
OnDiscarded_NewClient(r, resp) ==
    /\ pc[r] = "awaiting"
    /\ ~Plan(r)[Len(calls[r])].use
    /\ outs' = [outs EXCEPT ![r] = Append(@, resp)]
    /\ calls' = [calls EXCEPT ![r] =
                    Append(@, [call |-> Plan(r)[Len(calls[r]) + 1].call, client |-> 2])]
    /\ UNCHANGED <<pc, route, inb, args, body, client, ret, http, tables>>

\* A handler that, after a dropped response, waits for a lock nobody releases.
OnDiscarded_AwaitsLock(r, resp) ==
    /\ pc[r] = "awaiting"
    /\ ~Plan(r)[Len(calls[r])].use
    /\ outs' = [outs EXCEPT ![r] = Append(@, resp)]
    /\ pc' = [pc EXCEPT ![r] = "blocked"]
    /\ UNCHANGED <<route, inb, args, body, calls, client, ret, http, tables>>

\* A call whose response the handler drops has answered: the next call goes out.
OnDiscarded(r, resp) ==
    /\ pc[r] = "awaiting"
    /\ ~Plan(r)[Len(calls[r])].use
    /\ outs' = [outs EXCEPT ![r] = Append(@, resp)]
    /\ calls' = [calls EXCEPT ![r] = Append(@, Sent(Plan(r)[Len(calls[r]) + 1].call))]
    /\ UNCHANGED <<pc, route, inb, args, body, client, ret, http, tables>>

\* A handler that sends its call again when raise_for_status() raises.
OnStatusError_Retry(r, resp) ==
    /\ pc[r] = "awaiting"
    /\ Plan(r)[Len(calls[r])].use
    /\ ~is_success(resp)
    /\ outs' = [outs EXCEPT ![r] = Append(@, resp)]
    /\ calls' = [calls EXCEPT ![r] = Append(@, @[Len(@)])]
    /\ UNCHANGED <<pc, route, inb, args, body, client, ret, http, tables>>

\* raise_for_status() raises httpx.HTTPStatusError: caught, the envelope is returned.
OnStatusError(r, resp) ==
    /\ pc[r] = "awaiting"
    /\ Plan(r)[Len(calls[r])].use
    /\ ~is_success(resp)
    /\ outs' = [outs EXCEPT ![r] = Append(@, resp)]
    /\ Finish(r, Delivered(route[r], HTTPStatusError(resp)), HTTPStatusError(resp), "returned")
    /\ UNCHANGED <<route, inb, args, body, calls, tables>>

\* A handler whose `response` is a module-level name shared by all requests: it
\* returns the document of the latest response any request in flight has received.
OnSuccess_SharedResponse(r, resp) ==
    LET others == {s \in Reqs \ {r} : outs[s] # <<>> /\ outs[s][Len(outs[s])].kind = "response"
                                                    /\ json(outs[s][Len(outs[s])]) # Invalid}
        shared == IF others = {} THEN resp
                  ELSE LET s == CHOOSE s \in others : TRUE IN outs[s][Len(outs[s])]
    IN /\ pc[r] = "awaiting"
       /\ Plan(r)[Len(calls[r])].use
       /\ is_success(resp)
       /\ json(resp) # Invalid
       /\ outs' = [outs EXCEPT ![r] = Append(@, resp)]
       /\ Finish(r, Delivered(route[r], json(shared)), json(shared), "returned")
       /\ UNCHANGED <<route, inb, args, body, calls, tables>>

\* return response.json()
OnSuccess(r, resp) ==
    /\ pc[r] = "awaiting"
    /\ Plan(r)[Len(calls[r])].use
    /\ is_success(resp)
    /\ json(resp) # Invalid
    /\ outs' = [outs EXCEPT ![r] = Append(@, resp)]
    /\ Finish(r, Delivered(route[r], json(resp)), json(resp), "returned")
    /\ UNCHANGED <<route, inb, args, body, calls, tables>>

\* response.json() raises json.JSONDecodeError, which neither except clause
\* catches: the exception leaves the handler and the caller gets a 500.
OnDecodeError(r, resp) ==
    /\ pc[r] = "awaiting"
    /\ Plan(r)[Len(calls[r])].use
    /\ is_success(resp)
    /\ json(resp) = Invalid
    /\ outs' = [outs EXCEPT ![r] = Append(@, resp)]
    /\ Finish(r, 500, Absent, "fault")
    /\ UNCHANGED <<route, inb, args, body, calls, tables>>

\* The response is on its way to the caller: the slot is free again.
Complete(r) ==
    /\ pc[r] \in {"returned", "rejected", "fault"}
    /\ pc' = [pc EXCEPT ![r] = "idle"]
    /\ route' = [route EXCEPT ![r] = "none"]
    /\ inb' = [inb EXCEPT ![r] = Absent]
    /\ args' = [args EXCEPT ![r] = EmptyKV]
    /\ body' = [body EXCEPT ![r] = Absent]
    /\ calls' = [calls EXCEPT ![r] = <<>>]
    /\ outs' = [outs EXCEPT ![r] = <<>>]
    /\ client' = [client EXCEPT ![r] = "none"]
    /\ ret' = [ret EXCEPT ![r] = Absent]
    /\ http' = [http EXCEPT ![r] = 0]
    /\ UNCHANGED tables

\* One request at a time, over every route and every input of the model.
Next ==
    \/ \E rt \in ForwardRoutes : \E i \in Inbound(rt) : Reject(1, rt, i)
    \/ \E rt \in StaticRoutes : Static(1, rt)
    \/ \E rt \in ForwardRoutes : \E i \in Inbound(rt) : Start(1, rt, i)
    \/ \E m \in FailureMessages : OnRequestError(1, TransportFailure(m))
    \/ \E resp \in Responses : OnDiscarded(1, resp)
    \/ \E resp \in Responses : OnStatusError(1, resp)
    \/ \E resp \in Responses : OnSuccess(1, resp)
    \/ \E resp \in Responses : OnDecodeError(1, resp)
    \/ Complete(1)

Spec == Init /\ [][Next]_vars

(* ------------------------------------------------------------------ *)
(* Concurrent requests                                                  *)
(* ------------------------------------------------------------------ *)
\* The forwarding routes, requests and upstream answers of the concurrent runs.
ConcRoutes == {"get_marketdata_snapshot", "get_positions"}

ConcInbound(rt) ==
    IF rt = "get_marketdata_snapshot"
    THEN {[path |-> EmptyKV, query |-> q, body |-> Absent] :
             q \in {("conids" :> "265598") @@ ("fields" :> "31"),
                    ("conids" :> "8314") @@ ("fields" :> "31"),
                    ("conids" :> "8314")}}
    ELSE {[path |-> ("accountId" :> "A") @@ ("pageId" :> page), query |-> q, body |-> Absent] :
             page \in {"0", "7", "x"}, q \in {EmptyKV, ("sort" :> "A")}}

ConcResponses ==
    {Response(200, "[{}]"), Response(200, "{}"), Response(200, ""), Response(401, "unauthorized")}

ConcFailures == {"All connection attempts failed"}

\* FastAPI runs one task per request on the event loop: the handlers of the
\* requests in flight advance in any order, each at its own await.
NextConc ==
    \E r \in Reqs :
        \/ \E rt \in ConcRoutes : \E i \in ConcInbound(rt) : Reject(r, rt, i)
        \/ \E rt \in StaticRoutes : Static(r, rt)
        \/ \E rt \in ConcRoutes : \E i \in ConcInbound(rt) : Start(r, rt, i)
        \/ \E m \in ConcFailures : OnRequestError(r, TransportFailure(m))
        \/ \E resp \in ConcResponses : OnDiscarded(r, resp)
        \/ \E resp \in ConcResponses : OnStatusError(r, resp)
        \/ \E resp \in ConcResponses : OnSuccess(r, resp)
        \/ \E resp \in ConcResponses : OnDecodeError(r, resp)
        \/ Complete(r)

SpecConc == Init /\ [][NextConc]_vars

(* ------------------------------------------------------------------ *)
(* Requests whose upstream calls are all answered in the end            *)
(* ------------------------------------------------------------------ *)
\* The forwarding routes and requests of the runs with fairness.
LiveRoutes == {"get_hmds_history", "get_all_accounts_allocation"}

LiveInbound(rt) ==
    IF rt = "get_hmds_history"
    THEN {[path |-> EmptyKV, query |-> q, body |-> Absent] :
             q \in {("conid" :> "265598") @@ ("period" :> "1d"),
                    ("conid" :> "265598") @@ ("period" :> "1d") @@ ("outsideRth" :> "true"),
                    ("conid" :> "265598")}}
    ELSE {[path |-> EmptyKV, query |-> EmptyKV, body |-> b] :
             b \in {VDict([acctIds |-> VList(<<VStr("DU123456")>>)]), Absent}}

\* The awaited upstream call of slot r is over: it was answered, or it failed in
\* transport (refused, or timed out after the call's timeout= seconds).
Answer(r) ==
    \/ \E m \in ConcFailures : OnRequestError(r, TransportFailure(m))
    \/ \E resp \in ConcResponses : OnDiscarded(r, resp)
    \/ \E resp \in ConcResponses : OnStatusError(r, resp)
    \/ \E resp \in ConcResponses : OnSuccess(r, resp)
    \/ \E resp \in ConcResponses : OnDecodeError(r, resp)

NextLive ==
    \E r \in Reqs :
        \/ \E rt \in LiveRoutes : \E i \in LiveInbound(rt) : Reject(r, rt, i)
        \/ \E rt \in LiveRoutes : \E i \in LiveInbound(rt) : Start(r, rt, i)
        \/ Answer(r)
        \/ Complete(r)

\* Every upstream call is over in the end: httpx answers or raises within the
\* timeout each call is given.
SpecLive == Init /\ [][NextLive]_vars /\ \A r \in Reqs : WF_vars(Answer(r))

(* ------------------------------------------------------------------ *)
(* Properties                                                           *)
(* ------------------------------------------------------------------ *)
\* The handler of slot r has ended (by returning or by an escaping exception).
Ended(r) == pc[r] \in {"returned", "fault"} /\ route[r] \in ForwardRoutes

\* The upstream's answer that ended it.
LastOut(r) == outs[r][Len(outs[r])]

IsResponse(o) == o.kind = "response"
Is2xx(o) == IsResponse(o) /\ o.status \in 200..299
IsNon2xx(o) == IsResponse(o) /\ o.status \notin 200..299
IsTransportFailure(o) == o.kind = "error"

\* Two JSON values that read the same: equal, or the same number.
SameValue(x, y) ==
    \/ x = y
    \/ x.ty \in {"int", "float"} /\ y.ty \in {"int", "float"} /\ x.n = y.n

\* A declared path or query parameter that the request leaves out though it is
\* required, or gives as text that is not of the declared primitive type.
BadParam(rt, i) ==
    \E k \in DOMAIN Sig(rt) :
        LET d == Sig(rt)[k]
            given == IF d.in = "path" THEN i.path ELSE i.query
        IN \/ d.required /\ d.name \notin DOMAIN given
           \/ d.name \in DOMAIN given /\ d.type \in {"int", "float", "bool"}
                                      /\ given[d.name] = "x"

\* A JSON object that lacks a required field of model m or holds a value of
\* another JSON type than declared (a string for a number, an object for a scalar).
BadObject(m, v) ==
    \/ v.ty # "dict"
    \/ \E k \in DOMAIN ModelFields(m) :
          LET f == ModelFields(m)[k]
          IN \/ f.required /\ f.name \notin DOMAIN v.kv
             \/ f.name \in DOMAIN v.kv /\ v.kv[f.name] = Mistyped /\ f.type # "dict"
             \/ f.name \in DOMAIN v.kv /\ v.kv[f.name].ty = "str"
                                       /\ f.type \in {"int", "float", "bool"}

\* A declared body that is missing, or bad in itself or in one of its nested objects.
BadBody(rt, i) ==
    /\ BodyModel(rt) # "none"
    /\ \/ i.body = Absent
       \/ BadObject(BodyModel(rt), i.body)
       \/ \E k \in DOMAIN ModelFields(BodyModel(rt)) :
             LET f == ModelFields(BodyModel(rt))[k]
             IN /\ ElemType(f.type) \in ModelNames
                /\ f.name \in DOMAIN i.body.kv
                /\ i.body.kv[f.name].ty = "list"
                /\ \E j \in DOMAIN i.body.kv[f.name].items :
                      BadObject(ElemType(f.type), i.body.kv[f.name].items[j])

\* C1: a request to a forwarding route that misses a required path, query or body
\* field, or carries a value of the wrong primitive type, is refused with the
\* client-error status 422, and no upstream call is ever issued for it.
C1_InvalidNeverForwarded ==
    \A r \in Reqs :
        (pc[r] # "idle" /\ route[r] \in ForwardRoutes
         /\ (BadParam(route[r], inb[r]) \/ BadBody(route[r], inb[r])))
        => (pc[r] = "rejected" /\ http[r] = 422 /\ calls[r] = <<>> /\ client[r] = "none")

\* C1 witness: get_strikes without its required conid is refused.
C1_Witness ==
    /\ pc[1] = "rejected"
    /\ http[1] = 422
    /\ route[1] = "get_strikes"
    /\ "conid" \notin DOMAIN inb[1].query
    /\ calls[1] = <<>>

\* C2: when the final upstream call answers a non-2xx status s with body text b,
\* the handler returns (it does not raise) an envelope with status_code s and
\* detail b.
C2_UpstreamErrorEnvelope ==
    \A r \in Reqs :
        (Ended(r) /\ IsNon2xx(LastOut(r)))
        => /\ pc[r] = "returned"
           /\ ret[r].ty = "dict"
           /\ {"status_code", "detail"} \subseteq DOMAIN ret[r].kv
           /\ ret[r].kv.status_code = VInt(LastOut(r).status)
           /\ ret[r].kv.detail = VStr(LastOut(r).text)

\* C2 witness: 401 "unauthorized" relayed by cancel_order.
C2_Witness ==
    /\ route[1] = "cancel_order"
    /\ pc[1] = "returned"
    /\ LastOut(1) = Response(401, "unauthorized")
    /\ ret[1].kv.status_code = VInt(401)
    /\ ret[1].kv.detail = VStr("unauthorized")

\* C3 (as claimed): when the transport fails, the handler returns the envelope
\* {"error": "Request Error", "detail": <description>} with a non-empty description
\* and no status_code field.
C3_TransportEnvelopeNonEmpty ==
    \A r \in Reqs :
        (Ended(r) /\ IsTransportFailure(LastOut(r)))
        => /\ pc[r] = "returned"
           /\ ret[r].ty = "dict"
           /\ DOMAIN ret[r].kv = {"error", "detail"}
           /\ ret[r].kv.error = VStr("Request Error")
           /\ ret[r].kv.detail.ty = "str"
           /\ ret[r].kv.detail.s # ""

\* C4 (as claimed): market-data snapshot: if the first upstream invocation fails
\* (non-2xx or transport failure), the route still makes its second invocation,
\* and when that one succeeds the route returns its payload.
C4_SnapshotFirstFailureIgnored ==
    \A r \in Reqs :
        (route[r] = "get_marketdata_snapshot" /\ Ended(r)
         /\ (IsNon2xx(outs[r][1]) \/ IsTransportFailure(outs[r][1])))
        => /\ Len(outs[r]) = 2
           /\ (Is2xx(outs[r][2]) /\ json(outs[r][2]) # Invalid) => ret[r] = json(outs[r][2])

\* C5: market-data snapshot: when the first invocation succeeds and the second
\* fails, the route returns the envelope built from the second call (its status
\* and body, or its failure description), never the first call's payload.
C5_SnapshotSecondFailureReturned ==
    \A r \in Reqs :
        (route[r] = "get_marketdata_snapshot" /\ Ended(r) /\ Is2xx(outs[r][1]))
        => /\ Len(outs[r]) = 2
           /\ IsNon2xx(outs[r][2]) =>
                 /\ pc[r] = "returned"
                 /\ ret[r].ty = "dict"
                 /\ "status_code" \in DOMAIN ret[r].kv
                 /\ ret[r].kv.status_code = VInt(outs[r][2].status)
                 /\ ret[r].kv.detail = VStr(outs[r][2].text)
           /\ IsTransportFailure(outs[r][2]) =>
                 /\ pc[r] = "returned"
                 /\ ret[r].ty = "dict"
                 /\ "status_code" \notin DOMAIN ret[r].kv
                 /\ ret[r].kv.detail = VStr(outs[r][2].msg)

\* C5 witness: first 200 with a JSON list, second 500: the 500 envelope is returned.
C5_Witness ==
    /\ route[1] = "get_marketdata_snapshot"
    /\ pc[1] = "returned"
    /\ Len(outs[1]) = 2
    /\ outs[1][1] = Response(200, "[{}]")
    /\ outs[1][2] = Response(500, "unauthorized")
    /\ ret[1].ty = "dict"
    /\ ret[1].kv.status_code = VInt(500)

\* C6 (as claimed): HMDS history: if the /hmds/auth/init call fails (non-2xx or
\* transport failure), the /hmds/history call is still issued and its result is
\* what the route returns.
C6_HmdsInitFailureIgnored ==
    \A r \in Reqs :
        (route[r] = "get_hmds_history" /\ Ended(r)
         /\ (IsNon2xx(outs[r][1]) \/ IsTransportFailure(outs[r][1])))
        => /\ Len(calls[r]) = 2
           /\ calls[r][2].call.url = BASE_URL \o "/hmds/history"
           /\ Len(outs[r]) = 2
           /\ (Is2xx(outs[r][2]) /\ json(outs[r][2]) # Invalid) => ret[r] = json(outs[r][2])

\* C7 (as claimed): a validated request always ends with the handler returning a
\* value; no exception leaves the handler, not even for a 2xx body that is not JSON.
C7_NoUnhandledFault ==
    \A r \in Reqs : pc[r] # "fault"

\* An optional query parameter of the route in slot r that the caller left out.
Omitted(r, d) == d.in = "query" /\ ~d.required /\ d.name \notin DOMAIN inb[r].query

\* Whether key `name` is in the query of call c.
InQuery(c, name) == c.params # Absent /\ name \in DOMAIN c.params.kv

\* C8 (as claimed): an optional query parameter the caller omits is absent from
\* the outbound query of every call, whatever default it is declared with.
C8_OmittedOptionalAbsent ==
    \A r \in Reqs :
        route[r] \in ForwardRoutes =>
            \A k \in DOMAIN Sig(route[r]) : \A j \in DOMAIN calls[r] :
                Omitted(r, Sig(route[r])[k]) => ~InQuery(calls[r][j].call, Sig(route[r])[k].name)

\* What the handlers send for an omitted parameter that is declared with a default.
DeclaredDefaultSent(name) ==
    CASE name = "outsideRth" -> VStr("false")
      [] name = "barType" -> VStr("trades")
      [] name = "name" -> VStr("false")
      [] name = "max" -> VInt(10)
      [] OTHER -> Absent

\* C8 (amended): an omitted optional query parameter declared with no default
\* (None) is absent from the outbound query of every call; the four declared with
\* a default (outsideRth and barType on both history routes, name on
\* /iserver/secdef/search, max on GET /fyi/notifications) are sent in the route's
\* real call with that default: "false", "trades", "false", 10.
C8_OmittedOptionalAbsentUnlessDefault ==
    \A r \in Reqs :
        route[r] \in ForwardRoutes =>
            \A k \in DOMAIN Sig(route[r]) : \A j \in DOMAIN calls[r] :
                LET d == Sig(route[r])[k]
                    c == calls[r][j].call
                IN Omitted(r, d) =>
                      IF d.default = None
                      THEN ~InQuery(c, d.name)
                      ELSE /\ d.name \in {"outsideRth", "barType", "name", "max"}
                           /\ c.url # BASE_URL \o "/hmds/auth/init" =>
                                 /\ InQuery(c, d.name)
                                 /\ c.params.kv[d.name] = DeclaredDefaultSent(d.name)

\* C8 witness: /iserver/marketdata/history called with conid and period only: bar
\* and exchange stay out of the outbound query, outsideRth and barType go out
\* with their defaults.
C8_Witness ==
    /\ route[1] = "get_marketdata_history"
    /\ DOMAIN inb[1].query = {"conid", "period"}
    /\ Len(calls[1]) = 1
    /\ DOMAIN calls[1][1].call.params.kv = {"conid", "period", "outsideRth", "barType"}
    /\ calls[1][1].call.params.kv.outsideRth = VStr("false")
    /\ calls[1][1].call.params.kv.barType = VStr("trades")

\* The orders of the inbound body and of the outbound JSON of slot r.
OrdersIn(r) == inb[r].body.kv.orders.items
OrdersOut(r) == calls[r][1].call.json.kv.orders.items

\* C9: order placement: the outbound JSON body has an orders list with one object
\* per input order, in the same order; each object holds every field the caller
\* set, with its value, and no field whose value is null.  The one-order request
\* {orderType LMT, side BUY, tif DAY, quantity 10, conid 265598} goes out as
\* exactly one object carrying those fields.
C9_OrdersRoundTrip ==
    \A r \in Reqs :
        (route[r] = "place_order" /\ calls[r] # <<>>) =>
            /\ calls[r][1].call.json.ty = "dict"
            /\ DOMAIN calls[r][1].call.json.kv = {"orders"}
            /\ calls[r][1].call.json.kv.orders.ty = "list"
            /\ Len(OrdersOut(r)) = Len(OrdersIn(r))
            /\ \A i \in DOMAIN OrdersIn(r) :
                  /\ OrdersOut(r)[i].ty = "dict"
                  /\ \A f \in DOMAIN OrdersIn(r)[i].kv :
                        OrdersIn(r)[i].kv[f] # None =>
                            /\ f \in DOMAIN OrdersOut(r)[i].kv
                            /\ SameValue(OrdersOut(r)[i].kv[f], OrdersIn(r)[i].kv[f])
                  /\ \A f \in DOMAIN OrdersOut(r)[i].kv : OrdersOut(r)[i].kv[f] # None
            /\ OrdersIn(r) = <<VDict(SpecOrder)>> =>
                  /\ Len(OrdersOut(r)) = 1
                  /\ OrdersOut(r)[1].kv.orderType = VStr("LMT")
                  /\ OrdersOut(r)[1].kv.side = VStr("BUY")
                  /\ OrdersOut(r)[1].kv.tif = VStr("DAY")
                  /\ OrdersOut(r)[1].kv.quantity.n = 10
                  /\ OrdersOut(r)[1].kv.conid = VInt(265598)

\* C9 witness: two orders go out, the second with an explicit null acctId and a
\* price, after the spec's one.
C9_Witness ==
    /\ route[1] = "place_order"
    /\ calls[1] # <<>>
    /\ Len(OrdersIn(1)) = 2
    /\ OrdersIn(1)[1] = VDict(SpecOrder)
    /\ "acctId" \in DOMAIN OrdersIn(1)[2].kv
    /\ "acctId" \notin DOMAIN OrdersOut(1)[2].kv
    /\ OrdersOut(1)[2].kv.price = VFloat(7)

C12_SuccessPassThrough ==
    \A r \in Reqs :
        (Ended(r) /\ Is2xx(LastOut(r)) /\ LastOut(r).text \in DOMAIN JsonDocuments)
        => (pc[r] = "returned" /\ ret[r] = JsonDocuments[LastOut(r).text])

\* C12 witness: get_account_summary hands back the upstream's {"total": 1}.
C12_Witness ==
    /\ route[1] = "get_account_summary"
    /\ pc[1] = "returned"
    /\ LastOut(1) = Response(200, "{\"total\": 1}")
    /\ ret[1] = VDict([total |-> VInt(1)])


\* The two routes whose handler makes two upstream calls.
TwoCallRoutes == {"get_marketdata_snapshot", "get_hmds_history"}

C14_StaticTablesConstant ==
    /\ tables = [rt \in StaticRoutes |-> StaticValue(rt)]
    /\ \A r \in Reqs :
          (route[r] \in StaticRoutes /\ pc[r] # "idle")
          => /\ pc[r] = "returned"
             /\ calls[r] = <<>>
             /\ client[r] = "none"
             /\ ret[r] = StaticValue(route[r])
             /\ http[r] = 200

\* C14 witness: the field table is served while a forwarded request awaits its
\* second upstream call.
C14_Witness ==
    /\ route[1] = "get_available_fields"
    /\ pc[1] = "returned"
    /\ ret[1] = MARKET_DATA_FIELDS
    /\ pc[2] = "awaiting"
    /\ Len(calls[2]) = 2

\* What a handler returns, from the request's own answers alone (Invalid: it raises).
OwnReturn(os) ==
    LET last == os[Len(os)]
    IN IF IsTransportFailure(last) THEN RequestError(last)
       ELSE IF ~is_success(last) THEN HTTPStatusError(last)
       ELSE json(last)

\* The calls a handler makes, from the request's own inputs alone.
OwnPlan(rt, i) == Handler(rt, Bound(rt, i).args, Bound(rt, i).body)

\* C15: with requests in flight together, under every interleaving, a request's
\* upstream calls are determined by its own inputs and its response by its own
\* inputs and the answers to its own calls; two requests with the same inputs and
\* the same answers get the same response.
C15_RequestsIndependent ==
    /\ \A r \in Reqs :
          (route[r] \in ForwardRoutes /\ pc[r] \in {"awaiting", "returned", "fault"})
          => /\ \A k \in DOMAIN calls[r] : calls[r][k] = Sent(OwnPlan(route[r], inb[r])[k].call)
             /\ Ended(r) =>
                   LET v == OwnReturn(outs[r])
                   IN IF v = Invalid
                      THEN pc[r] = "fault" /\ ret[r] = Absent /\ http[r] = 500
                      ELSE pc[r] = "returned" /\ ret[r] = v /\ http[r] = Delivered(route[r], v)
    /\ \A r, s \in Reqs :
          (Ended(r) /\ Ended(s) /\ route[r] = route[s] /\ inb[r] = inb[s] /\ outs[r] = outs[s])
          => (ret[r] = ret[s] /\ http[r] = http[s] /\ calls[r] = calls[s] /\ pc[r] = pc[s])

\* C15 witness: a snapshot request has returned its own document while another,
\* for another contract, is in flight after a different first answer.
C15_Witness ==
    /\ route[1] = "get_marketdata_snapshot" /\ route[2] = "get_marketdata_snapshot"
    /\ pc[1] = "returned" /\ pc[2] = "awaiting"
    /\ inb[1] # inb[2]
    /\ Len(calls[2]) = 2
    /\ outs[1][1] # outs[2][1]
    /\ LastOut(1) = Response(200, "[{}]")
    /\ ret[1] = VList(<<VDict(EmptyKV)>>)


\* C16: whichever way a forwarding handler ends (a document returned, either
\* envelope returned, an exception escaping), its transport client is closed by
\* then; no handler has ended with its client still open.
C16_ClientReleased ==
    \A r \in Reqs :
        /\ Ended(r) => client[r] = "closed"
        /\ client[r] = "open" => pc[r] = "awaiting"

\* C16 witness: mark_notifications_as_read ended on an escaping exception, its
\* client closed.
C16_Witness ==
    /\ route[1] = "mark_notifications_as_read"
    /\ pc[1] = "fault"
    /\ Len(calls[1]) = 1
    /\ client[1] = "closed"

\* C17: on every forwarding route, the market-data snapshot route included, an
\* error envelope the handler returns reaches the caller under the success
\* status 200, as the response body.
C17_EnvelopeDeliveredAsSuccess ==
    \A r \in Reqs :
        (Ended(r) /\ pc[r] = "returned" /\ (IsNon2xx(LastOut(r)) \/ IsTransportFailure(LastOut(r))))
        => http[r] = 200

\* The inbound path of route rt with each {parameter} replaced by the caller's text.
RECURSIVE InboundPath(_, _, _)
InboundPath(segs, given, k) ==
    IF k > Len(segs) THEN ""
    ELSE LET names == {n \in DOMAIN given : segs[k] = "{" \o n \o "}"}
             here == IF names = {} THEN segs[k] ELSE given[CHOOSE n \in names : TRUE]
         IN here \o InboundPath(segs, given, k + 1)

\* C18: every upstream call of a forwarding route uses the inbound route's method
\* and goes to the base address followed by the inbound path with the caller's
\* path values; the one exception is the first call of HMDS history, a GET of
\* /hmds/auth/init.
C18_SameMethodAndPath ==
    \A r \in Reqs :
        (route[r] \in ForwardRoutes /\ pc[r] \in {"awaiting", "returned", "fault"})
        => \A k \in DOMAIN calls[r] :
              LET c == calls[r][k].call
              IN IF route[r] = "get_hmds_history" /\ k = 1
                 THEN c.method = "GET" /\ c.url = BASE_URL \o "/hmds/auth/init"
                 ELSE /\ c.method = router(route[r]).method
                      /\ c.url = BASE_URL \o InboundPath(router(route[r]).path, inb[r].path, 1)

\* C18 witness: modify_order forwarded as a POST to the caller's account and order.
C18_Witness ==
    /\ route[1] = "modify_order"
    /\ pc[1] = "returned"
    /\ inb[1].path = ("accountId" :> "accountId") @@ ("orderId" :> "orderId")
    /\ calls[1][1].call.method = "POST"
    /\ calls[1][1].call.url = BASE_URL \o "/iserver/account/accountId/order/orderId"

\* C19: the envelope returned for an upstream non-2xx response has the error
\* field "Upstream API Error" on every route.
C19_ErrorFieldUpstream ==
    \A r \in Reqs :
        (Ended(r) /\ IsNon2xx(LastOut(r)))
        => (pc[r] = "returned" /\ ret[r].kv.error = VStr("Upstream API Error"))

\* C19 as the code has it: the error field is "IBKR API Error" on every route.
C19_ErrorFieldIBKR ==
    \A r \in Reqs :
        (Ended(r) /\ IsNon2xx(LastOut(r)))
        => (pc[r] = "returned" /\ ret[r].kv.error = VStr("IBKR API Error"))

\* C19 witness: place_order_reply returned the envelope for a 500.
C19_Witness ==
    /\ route[1] = "place_order_reply"
    /\ pc[1] = "returned"
    /\ LastOut(1) = Response(500, "")
    /\ ret[1].kv.error = VStr("IBKR API Error")

\* The boolean query parameters, by route.
BoolQueryParams ==
    ("get_marketdata_history" :> "outsideRth") @@ ("get_hmds_history" :> "outsideRth")
    @@ ("search_contract_by_symbol_or_name" :> "name")
    @@ ("get_contract_info_and_rules" :> "isBuy")

\* C20: a boolean query parameter in an outbound query is written as lowercase
\* "true" or "false", the caller's value (or the declared default False when the
\* caller left it out).
C20_BooleansLowercase ==
    \A r \in Reqs :
        (route[r] \in DOMAIN BoolQueryParams /\ pc[r] \in {"awaiting", "returned", "fault"})
        => LET name == BoolQueryParams[route[r]]
               given == IF name \in DOMAIN inb[r].query
                        THEN Convert("bool", inb[r].query[name])
                        ELSE VBool(FALSE)
           IN /\ \A k \in DOMAIN calls[r] :
                    LET c == calls[r][k].call
                    IN InQuery(c, name) =>
                          primitive_value_to_str(c.params.kv[name])
                             = (IF given.b THEN "true" ELSE "false")
              /\ Len(calls[r]) = Len(Plan(r)) => InQuery(calls[r][Len(calls[r])].call, name)

\* C20 witness: outsideRth=true went out as "true" on the history call of HMDS
\* history.
C20_Witness ==
    /\ route[1] = "get_hmds_history"
    /\ pc[1] = "returned"
    /\ Len(calls[1]) = 2
    /\ "outsideRth" \in DOMAIN inb[1].query
    /\ inb[1].query.outsideRth = "true"
    /\ primitive_value_to_str(calls[1][2].call.params.kv.outsideRth) = "true"

\* Whether JSON value `out` is validated value v with every None-valued field of
\* every object left out, and nothing else changed.
RECURSIVE NullsDropped(_, _)
NullsDropped(v, out) ==
    CASE v.ty = "model" ->
            /\ out.ty = "dict"
            /\ DOMAIN out.kv = {k \in DOMAIN v.kv : v.kv[k] # None}
            /\ \A k \in DOMAIN out.kv : NullsDropped(v.kv[k], out.kv[k])
      [] v.ty = "list" ->
            /\ out.ty = "list"
            /\ Len(out.items) = Len(v.items)
            /\ \A i \in DOMAIN v.items : NullsDropped(v.items[i], out.items[i])
      [] OTHER -> out = v

\* Whether JSON value `out` is validated value v with every declared field of
\* every object, None-valued ones included.
RECURSIVE AllKept(_, _)
AllKept(v, out) ==
    CASE v.ty = "model" ->
            /\ out.ty = "dict"
            /\ DOMAIN out.kv = DOMAIN v.kv
            /\ \A k \in DOMAIN out.kv : AllKept(v.kv[k], out.kv[k])
      [] v.ty = "list" ->
            /\ out.ty = "list"
            /\ Len(out.items) = Len(v.items)
            /\ \A i \in DOMAIN v.items : AllKept(v.items[i], out.items[i])
      [] OTHER -> out = v

\* The object a body-carrying call sends (create_fa_group sends it inside a list).
Payload(r) ==
    LET j == calls[r][Len(calls[r])].call.json
    IN IF route[r] = "create_fa_group" THEN j.items[1] ELSE j

\* Body-carrying routes obey `drops`: on its routes the None-valued fields are
\* left out of the outbound JSON, on every other one all fields are sent.
DropsExactlyOn(drops) ==
    \A r \in Reqs :
        (route[r] \in ForwardRoutes /\ BodyModel(route[r]) # "none" /\ calls[r] # <<>>)
        => IF route[r] \in drops
           THEN NullsDropped(body[r], Payload(r))
           ELSE AllKept(body[r], Payload(r))

\* C21 (as claimed): fields with no value are dropped on exactly order placement,
\* order modification and watchlist creation; every other body-carrying route,
\* order preview included, sends the validated body with all its fields.
C21_NullsDroppedOnThree == DropsExactlyOn({"place_order", "modify_order", "create_watchlist"})

\* C21 as the code has it: order preview drops them too.
C21_NullsDroppedOnFour ==
    DropsExactlyOn({"place_order", "preview_order", "modify_order", "create_watchlist"})

\* C21 witness: an order preview went out without the price the caller left unset.
C21_Witness ==
    /\ route[1] = "preview_order"
    /\ pc[1] = "returned"
    /\ Len(body[1].kv.orders.items) = 1
    /\ body[1].kv.orders.items[1].kv.price = None
    /\ "price" \notin DOMAIN calls[1][1].call.json.kv.orders.items[1].kv
    /\ "side" \in DOMAIN calls[1][1].call.json.kv.orders.items[1].kv

\* A forwarding handler is running or has ended in slot r.
Running(r) == route[r] \in ForwardRoutes /\ pc[r] \in {"awaiting", "returned", "fault"}

\* C22 (as claimed): market-data snapshot: every validated request issues exactly
\* two upstream GET calls to /iserver/marketdata/snapshot with the same conids and
\* fields, the second only once the first has been answered; the value returned
\* is built from the second answer alone, whatever the first was (a body, a
\* status or an error).
C22_SnapshotAlwaysTwoCalls ==
    \A r \in Reqs :
        (route[r] = "get_marketdata_snapshot" /\ Running(r))
        => /\ \A k \in DOMAIN calls[r] :
                 /\ calls[r][k].call.method = "GET"
                 /\ calls[r][k].call.url = BASE_URL \o "/iserver/marketdata/snapshot"
                 /\ calls[r][k].call.params =
                       VDict([conids |-> VStr(inb[r].query.conids),
                              fields |-> VStr(inb[r].query.fields)])
           /\ Len(calls[r]) <= Len(outs[r]) + 1
           /\ Ended(r) =>
                 /\ Len(calls[r]) = 2
                 /\ Len(outs[r]) = 2
                 /\ pc[r] = "returned" => ret[r] = OwnReturn(<<outs[r][2]>>)

\* C23 (as claimed): HMDS history: every validated request first issues a GET of
\* /hmds/auth/init without query parameters, then, once that call has been
\* answered, the /hmds/history call; the value returned is built from the answer
\* to the history call alone.
C23_HmdsInitThenHistory ==
    \A r \in Reqs :
        (route[r] = "get_hmds_history" /\ Running(r))
        => /\ calls[r][1].call.method = "GET"
           /\ calls[r][1].call.url = BASE_URL \o "/hmds/auth/init"
           /\ calls[r][1].call.params = Absent
           /\ Len(calls[r]) <= Len(outs[r]) + 1
           /\ Len(calls[r]) = 2 => calls[r][2].call.url = BASE_URL \o "/hmds/history"
           /\ Ended(r) =>
                 /\ Len(calls[r]) = 2
                 /\ Len(outs[r]) = 2
                 /\ pc[r] = "returned" => ret[r] = OwnReturn(<<outs[r][2]>>)

\* C24 (as claimed): no two upstream calls of a request go out on the same client.
C24_FreshClientPerCall ==
    \A r \in Reqs :
        \A j, k \in DOMAIN calls[r] : j # k => calls[r][j].client # calls[r][k].client

\* C24 as the code has it: a handler opens one client when it starts and makes
\* all its calls on it, the two snapshot calls and the init and history calls of
\* HMDS history included; the client is open while a call is awaited, and a
\* request that has not started a handler has no client.
C24_OneClientPerHandler ==
    \A r \in Reqs :
        /\ \A k \in DOMAIN calls[r] : calls[r][k].client = 1
        /\ pc[r] = "awaiting" => client[r] = "open"
        /\ pc[r] \in {"idle", "rejected"} => client[r] = "none"

\* C24 witness: both calls of HMDS history are out on the handler's one client.
C24_Witness ==
    /\ route[1] = "get_hmds_history"
    /\ pc[1] = "awaiting"
    /\ Len(calls[1]) = 2
    /\ calls[1][1].client = calls[1][2].client
    /\ client[1] = "open"

\* C26: on snapshot and HMDS history the second call is issued exactly when the
\* first was answered with an HTTP response, of any status; the value returned is
\* then built from the second answer alone.  A transport failure of the first call
\* ends the handler: it returns the Request Error envelope of that failure and
\* the second call is never issued.
C26_SecondCallIffFirstAnswered ==
    \A r \in Reqs :
        (route[r] \in TwoCallRoutes /\ Running(r))
        => /\ Len(calls[r]) = 2 <=> (Len(outs[r]) >= 1 /\ IsResponse(outs[r][1]))
           /\ (Ended(r) /\ IsResponse(outs[r][1])) =>
                 /\ Len(outs[r]) = 2
                 /\ pc[r] = "returned" => ret[r] = OwnReturn(<<outs[r][2]>>)
                 /\ pc[r] = "fault" => OwnReturn(<<outs[r][2]>>) = Invalid
           /\ (Len(outs[r]) >= 1 /\ IsTransportFailure(outs[r][1])) =>
                 /\ pc[r] = "returned"
                 /\ Len(calls[r]) = 1
                 /\ Len(outs[r]) = 1
                 /\ ret[r] = VDict([error |-> VStr("Request Error"),
                                    detail |-> VStr(outs[r][1].msg)])

\* C26 witness: the init call of HMDS history failed in transport and the handler
\* returned that failure after its one call.
C26_Witness ==
    /\ route[1] = "get_hmds_history"
    /\ pc[1] = "returned"
    /\ Len(calls[1]) = 1
    /\ outs[1] = <<TransportFailure("All connection attempts failed")>>
    /\ ret[1].kv.detail = VStr("All connection attempts failed")

\* C26 second witness: a 401 to the first snapshot call, then the second call's
\* document returned.
C26_WitnessNon2xx ==
    /\ route[1] = "get_marketdata_snapshot"
    /\ pc[1] = "returned"
    /\ outs[1] = <<Response(401, "unauthorized"), Response(200, "[{}]")>>
    /\ ret[1] = VList(<<VDict(EmptyKV)>>)

\* C27: a value a forwarding handler returns is of exactly one of three kinds,
\* by the outcome of its last upstream call: the upstream's JSON document (only
\* after a 2xx), the HTTP-error envelope with a status_code field (only after a
\* non-2xx), the Request Error envelope without a status_code field (only after a
\* transport failure).
C27_ThreeShapes ==
    \A r \in Reqs :
        (Ended(r) /\ pc[r] = "returned")
        => LET last == LastOut(r)
               payload == Is2xx(last) /\ ret[r] = JsonDocuments[last.text]
               httpError ==
                   /\ IsNon2xx(last)
                   /\ ret[r].ty = "dict"
                   /\ DOMAIN ret[r].kv = {"error", "status_code", "detail"}
                   /\ ret[r].kv.error = VStr("IBKR API Error")
               requestError ==
                   /\ IsTransportFailure(last)
                   /\ ret[r].ty = "dict"
                   /\ DOMAIN ret[r].kv = {"error", "detail"}
                   /\ ret[r].kv.error = VStr("Request Error")
           IN /\ payload \/ httpError \/ requestError
              /\ ~(payload /\ httpError) /\ ~(payload /\ requestError)
              /\ ~(httpError /\ requestError)
              /\ \A k \in DOMAIN outs[r] : IsTransportFailure(outs[r][k]) => requestError

\* C27 witness: delete_watchlist returned the Request Error envelope.
C27_Witness ==
    /\ route[1] = "delete_watchlist"
    /\ pc[1] = "returned"
    /\ IsTransportFailure(LastOut(1))
    /\ DOMAIN ret[1].kv = {"error", "detail"}

\* An optional query parameter of the route in slot r that the caller supplied.
Supplied(r, d) == d.in = "query" /\ ~d.required /\ d.name \in DOMAIN inb[r].query

\* Whether query value `out` carries value v: v itself, or for a boolean its
\* lowercase name.
SentAs(out, v) ==
    \/ out = v
    \/ v.ty = "bool" /\ out = VStr(IF v.b THEN "true" ELSE "false")

\* The real (last planned) call of the handler in slot r has been issued.
RealCallIssued(r) == Running(r) /\ Len(calls[r]) = Len(Plan(r))

\* C28 (as claimed): every optional query parameter the caller supplies, whatever
\* its value (0 and the empty string included), is in the outbound query of the
\* real call with that value.
C28_SuppliedOptionalSent ==
    \A r \in Reqs :
        RealCallIssued(r) =>
            \A k \in DOMAIN Sig(route[r]) :
                LET d == Sig(route[r])[k]
                    c == calls[r][Len(calls[r])].call
                IN Supplied(r, d) =>
                      /\ InQuery(c, d.name)
                      /\ SentAs(c.params.kv[d.name], Convert(d.type, inb[r].query[d.name]))

\* C28 as the code has it: a supplied optional query parameter is in the outbound
\* query with its value when that value is truthy (a non-empty string, a non-zero
\* number); a supplied empty string or a supplied strike of 0 is left out like
\* an omitted one.  outsideRth, name and max are sent whatever their value.
C28_SuppliedTruthySent ==
    \A r \in Reqs :
        RealCallIssued(r) =>
            \A k \in DOMAIN Sig(route[r]) :
                LET d == Sig(route[r])[k]
                    c == calls[r][Len(calls[r])].call
                    v == Convert(d.type, inb[r].query[d.name])
                IN Supplied(r, d) =>
                      IF d.name \in {"outsideRth", "name", "max"} \/ Truthy(v)
                      THEN InQuery(c, d.name) /\ SentAs(c.params.kv[d.name], v)
                      ELSE ~InQuery(c, d.name)

\* C28 witness: /iserver/secdef/info with strike=7 and an empty month: the strike
\* goes out, the month does not.
C28_Witness ==
    /\ route[1] = "get_secdef_info"
    /\ pc[1] = "returned"
    /\ {"strike", "month"} \subseteq DOMAIN inb[1].query
    /\ inb[1].query.strike = "7"
    /\ inb[1].query.month = ""
    /\ InQuery(calls[1][1].call, "strike")
    /\ calls[1][1].call.params.kv.strike = VFloat(7)
    /\ ~InQuery(calls[1][1].call, "month")

\* C29 (as claimed): a value returned by a handler that declares a return type is
\* of that type on every upstream outcome; get_marketdata_snapshot, declared to
\* return a list of objects, returns a list on every path.
C29_ReturnConformsToDeclaredType ==
    \A r \in Reqs :
        pc[r] = "returned" => Conforms(ReturnType(route[r]), ret[r])

\* C30: GET /iserver/secdef/bond-filters makes one call whose query holds exactly
\* symbol and issuerId, symbol being "BOND" and issuerId the caller's value,
\* whatever else the caller put in the inbound query.
C30_BondFiltersSymbolFixed ==
    \A r \in Reqs :
        (route[r] = "get_bond_filters" /\ Running(r))
        => /\ Len(calls[r]) = 1
           /\ calls[r][1].call.params.ty = "dict"
           /\ DOMAIN calls[r][1].call.params.kv = {"symbol", "issuerId"}
           /\ calls[r][1].call.params.kv.symbol = VStr("BOND")
           /\ calls[r][1].call.params.kv.issuerId = VStr(inb[r].query.issuerId)

\* C30 witness: the caller's symbol=STK is ignored, its issuerId forwarded.
C30_Witness ==
    /\ route[1] = "get_bond_filters"
    /\ pc[1] = "returned"
    /\ inb[1].query = ("issuerId" :> "e1234") @@ ("symbol" :> "STK")
    /\ calls[1][1].call.params = VDict([symbol |-> VStr("BOND"), issuerId |-> VStr("e1234")])

\* C25: provided every upstream call is answered or times out in the end, every
\* validated request gets its response in the end: a handler waits for nothing
\* but its own upstream calls, whatever the other requests in flight do.
C25_EveryRequestAnswered ==
    \A r \in Reqs : (pc[r] = "awaiting") ~> (pc[r] \in {"returned", "fault"})

\* C25 witness: an HMDS history request has returned after its two calls while
\* an allocation request is still awaiting its one call.
C25_Witness ==
    /\ route[1] = "get_hmds_history"
    /\ pc[1] = "returned"
    /\ Len(outs[1]) = 2
    /\ route[2] = "get_all_accounts_allocation"
    /\ pc[2] = "awaiting"

==============================================================================
